---- MODULE Spec2Model ----
(***************************************************************************)
(* FarmEYE: the personalized health-risk engine, the baseline learner and  *)
(* the POST /api/health-score pipeline over the in-memory data store.      *)
(*                                                                         *)
(* Numbers.  The source computes in IEEE doubles; the model computes in    *)
(* exact arithmetic over integers:                                         *)
(*   - speeds are held in hundredths of a km/h (3.29 km/h is 329);         *)
(*   - a mean is the pair [n, d] standing for n/d (sum over length);       *)
(*   - a standard deviation is the pair [sq, den] standing for             *)
(*     sqrt(sq)/den;                                                       *)
(*   - every threshold test is decided by cross-multiplication, with       *)
(*     products that would leave 32 bits compared by Euclid's algorithm.   *)
(* Rounding error of the doubles is not modelled.                          *)
(*                                                                         *)
(* Time.  The clock `now` counts ticks, TicksPerDay of them to a day;      *)
(* tick 0 is a UTC midnight.  new Date() reads `now`.                      *)
(***************************************************************************)
EXTENDS Integers, Sequences, FiniteSets, TLC

VARIABLES
    now,               \* the wall clock read by new Date(), in ticks
    call,              \* a direct call of a core function: its name and arguments
    ret,               \* what that call returned (NoRet before it returns)
    animals,           \* data-store.ts: animals (profile per id)
    healthBaselines,   \* data-store.ts: healthBaselines (herd baseline per id)
    animalBaselines,   \* data-store.ts: animalBaselines (personal baseline per id)
    healthMetrics,     \* data-store.ts: healthMetrics (history per id)
    riskAssessments,   \* data-store.ts: riskAssessments (current assessment per id)
    geminiAlerts,      \* data-store.ts: geminiAlerts (the alert log)
    dailyDeviations,   \* data-store.ts: dailyDeviations (history per id)
    earlyWarnings,     \* data-store.ts: earlyWarnings (current drift assessment per id)
    animalIdCounter,   \* data-store.ts: animalIdCounter (next number per species)
    alertSeq,          \* how many ids generateId has handed out to alerts
    response,          \* the response of the last POST /api/health-score
    requests           \* how many POST /api/health-score requests were served

vars == <<now, call, ret, animals, healthBaselines, animalBaselines, healthMetrics,
          riskAssessments, geminiAlerts, dailyDeviations, earlyWarnings,
          animalIdCounter, alertSeq, response, requests>>

storeVars == <<animals, healthBaselines, animalBaselines, healthMetrics,
               riskAssessments, geminiAlerts, dailyDeviations, earlyWarnings,
               animalIdCounter, alertSeq, response, requests>>

(***************************************************************************)
(* Bounds of the model.                                                    *)
(***************************************************************************)
TicksPerDay == 2
MaxDays == 7
MaxTicks == 1
MaxCreates == 1
MaxRequests == 2
MaxCalls == 3
MaxAlerts == 3
MaxDeviations == 3

MaxNow == MaxDays * TicksPerDay

(***************************************************************************)
(* Exact arithmetic.                                                       *)
(***************************************************************************)
Abs(v) == IF v < 0 THEN -v ELSE v

Max2(a, b) == IF a >= b THEN a ELSE b

CeilDiv(a, b) == (a + b - 1) \div b

\* a/c > d/b for a, d >= 0 and c, b > 0, by continued fractions
RECURSIVE FracGT(_, _, _, _)
FracGT(a, c, d, b) ==
    LET q1 == a \div c
        q2 == d \div b
        r1 == a % c
        r2 == d % b
    IN  IF q1 # q2 THEN q1 > q2
        ELSE IF r1 = 0 THEN FALSE
        ELSE IF r2 = 0 THEN TRUE
        ELSE FracGT(b, r2, c, r1)

\* a*b > c*d for naturals, without forming the products
ProdGT(a, b, c, d) ==
    IF c = 0 \/ d = 0 THEN a > 0 /\ b > 0
    ELSE IF a = 0 \/ b = 0 THEN FALSE
    ELSE FracGT(a, c, d, b)

RECURSIVE SqrtSearch(_, _, _)
SqrtSearch(w, lo, hi) ==
    IF lo >= hi THEN lo
    ELSE LET mid == (lo + hi + 1) \div 2
         IN  IF mid * mid <= w THEN SqrtSearch(w, mid, hi)
                               ELSE SqrtSearch(w, lo, mid - 1)

\* floor of the square root
ISqrt(w) == SqrtSearch(w, 0, 46340)

\* A > B * sqrt(W) for naturals, i.e. A*A > B*B*W, without forming the products
SqGT(A, B, W) ==
    IF B = 0 \/ W = 0 THEN A > 0
    ELSE LET s == ISqrt(W)
             q == A \div B
             r == A % B
             D == W - s * s
         IN  IF q > s THEN TRUE
             ELSE IF q < s THEN FALSE
             ELSE IF D = 0 THEN r > 0
             ELSE ProdGT(r, 2 * s * B + r, D * B, B)

RECURSIVE SumSeq(_)
SumSeq(s) == IF s = <<>> THEN 0 ELSE Head(s) + SumSeq(Tail(s))

ZeroRat == [n |-> 0, d |-> 1]

ZeroRoot == [sq |-> 0, den |-> 1]

Whole(k) == [n |-> k, d |-> 1]

\* const x = value; F(x): the value is computed once and F reads the result
Bind(value, F(_)) == CHOOSE r \in {F(x) : x \in {value}} : TRUE

(***************************************************************************)
(* baseline-learning (src/components/StatCard.tsx, lines 42-185)           *)
(***************************************************************************)
MIN_DATA_POINTS == 20
MIN_DAYS == 7

initializeBaseline(animalId, t) ==
    [animalId |-> animalId,
     avgSpeed |-> ZeroRat,
     avgVisitsPerDay |-> ZeroRat,
     avgActivityLevel |-> ZeroRat,
     speedStdDev |-> ZeroRoot,
     activityStdDev |-> ZeroRoot,
     baselineStartDate |-> t,
     baselineStatus |-> "LEARNING",
     dataPointsCollected |-> 0,
     requiredDataPoints |-> MIN_DATA_POINTS]

\* mean(values): 0 for no values, else sum / length
mean(values) ==
    IF Len(values) = 0 THEN ZeroRat
    ELSE [n |-> SumSeq(values), d |-> Len(values)]

\* the sum over i < j of (values[i] - values[j])^2, which is
\* Len * (sum of squares) - (sum)^2: Len^2 times the population variance
PairSqSum(values) ==
    SumSeq([k \in 1..Len(values) |->
              SumSeq([j \in 1..(k - 1) |->
                        (values[k] - values[j]) * (values[k] - values[j])])])

\* standardDeviation(values): 0 under two values, else the square root of the
\* mean squared difference from the mean (population variance)
standardDeviation(values) ==
    IF Len(values) < 2 THEN ZeroRoot
    ELSE [sq |-> PairSqSum(values), den |-> Len(values)]

\* getDaysBetween: the absolute difference in days, rounded up
getDaysBetween(startDate, endDate) ==
    CeilDiv(Abs(endDate - startDate), TicksPerDay)

Column(dataPoints, f) == [i \in 1..Len(dataPoints) |-> dataPoints[i][f]]

\* addBaselineDataPoint with its first test (already STABLE) left out: a mutant
addBaselineDataPoint_Relearn(baseline, dataPoints, t) ==
    LET counted == [baseline EXCEPT !.dataPointsCollected = Len(dataPoints)]
        daysSinceStart == getDaysBetween(baseline.baselineStartDate, t)
        learned ==
            [counted EXCEPT
                !.avgSpeed = mean(Column(dataPoints, "averageSpeed")),
                !.avgVisitsPerDay = mean(Column(dataPoints, "visitFrequency24h")),
                !.avgActivityLevel = mean(Column(dataPoints, "activityLevel")),
                !.speedStdDev = standardDeviation(Column(dataPoints, "averageSpeed")),
                !.activityStdDev = standardDeviation(Column(dataPoints, "activityLevel")),
                !.baselineStatus =
                    IF Len(dataPoints) >= MIN_DATA_POINTS /\ daysSinceStart >= MIN_DAYS
                    THEN "STABLE" ELSE baseline.baselineStatus]
    IN  IF Len(dataPoints) < 2 THEN counted ELSE learned

addBaselineDataPoint(baseline, dataPoints, t) ==
    IF baseline.baselineStatus = "STABLE" THEN baseline
    ELSE
    LET counted == [baseline EXCEPT !.dataPointsCollected = Len(dataPoints)]
        daysSinceStart == getDaysBetween(baseline.baselineStartDate, t)
        learned ==
            [counted EXCEPT
                !.avgSpeed = mean(Column(dataPoints, "averageSpeed")),
                !.avgVisitsPerDay = mean(Column(dataPoints, "visitFrequency24h")),
                !.avgActivityLevel = mean(Column(dataPoints, "activityLevel")),
                !.speedStdDev = standardDeviation(Column(dataPoints, "averageSpeed")),
                !.activityStdDev = standardDeviation(Column(dataPoints, "activityLevel")),
                !.baselineStatus =
                    IF Len(dataPoints) >= MIN_DATA_POINTS /\ daysSinceStart >= MIN_DAYS
                    THEN "STABLE" ELSE baseline.baselineStatus]
    IN  IF Len(dataPoints) < 2 THEN counted ELSE learned

\* calculateLearningProgress without the 1 in its Math.min: a mutant
calculateLearningProgress_Uncapped(baseline, t) ==
    IF baseline.baselineStatus = "STABLE" THEN Whole(1)
    ELSE LET dp == [n |-> baseline.dataPointsCollected, d |-> baseline.requiredDataPoints]
             tp == [n |-> getDaysBetween(baseline.baselineStartDate, t), d |-> MIN_DAYS]
         IN  IF dp.n * tp.d <= tp.n * dp.d THEN dp ELSE tp

\* calculateLearningProgress: min(dataProgress, timeProgress, 1) as a fraction
calculateLearningProgress(baseline, t) ==
    IF baseline.baselineStatus = "STABLE" THEN Whole(1)
    ELSE LET dp == [n |-> baseline.dataPointsCollected, d |-> baseline.requiredDataPoints]
             tp == [n |-> getDaysBetween(baseline.baselineStartDate, t), d |-> MIN_DAYS]
             m  == IF dp.n * tp.d <= tp.n * dp.d THEN dp ELSE tp
         IN  IF m.n >= m.d THEN Whole(1) ELSE m

\* isBaselineReady answering yes to every baseline: a mutant
isBaselineReady_Always(baseline) == baseline.baselineStatus \in {"LEARNING", "STABLE"}

isBaselineReady(baseline) == baseline.baselineStatus = "STABLE"

(***************************************************************************)
(* Animal ids.  The id `${PREFIX}-${number padded to 3 digits}` is held as *)
(* the pair <<PREFIX, number>>.                                            *)
(***************************************************************************)
SpeciesPrefix(species) ==
    CASE species = "Cow" -> "COW"
      [] species = "Buffalo" -> "BUFFALO"
      [] species = "Goat" -> "GOAT"
      [] species = "Sheep" -> "SHEEP"

\* the sum of the char codes of the prefix and the '-' after it
PrefixCharSum(prefix) ==
    CASE prefix = "COW" -> 67 + 79 + 87 + 45
      [] prefix = "BUFFALO" -> 66 + 85 + 70 + 70 + 65 + 76 + 79 + 45
      [] prefix = "GOAT" -> 71 + 79 + 65 + 84 + 45
      [] prefix = "SHEEP" -> 83 + 72 + 69 + 69 + 80 + 45

\* the sum of the char codes of the decimal digits of k, padded to 3 digits
RECURSIVE DigitCharSum(_, _)
DigitCharSum(k, width) ==
    IF k < 10 /\ width <= 1 THEN 48 + k
    ELSE (48 + (k % 10)) + DigitCharSum(k \div 10, width - 1)

\* animalId.split('').reduce((acc, char) => acc + char.charCodeAt(0), 0)
IdHash(animalId) == PrefixCharSum(animalId[1]) + DigitCharSum(animalId[2], 3)

(***************************************************************************)
(* health-engine (src/unnamed/part_006; src/lib/health-engine.ts is the    *)
(* same file without the personalized path)                                *)
(***************************************************************************)
\* Math.round of n/d for n >= 0, d > 0
RoundDiv(n, d) == (2 * n + d) \div (2 * d)

\* (3.5 * multiplier).toFixed(2) falls on a tie (x.xx5) for every bias; the double
\* product lies under the tie for these (hash % 20, bias) and toFixed rounds it down
FloatTieDown ==
    {<<3, "high">>, <<3, "low">>, <<5, "high">>, <<5, "low">>, <<7, "high">>,
     <<9, "high">>, <<9, "low">>, <<11, "high">>, <<13, "high">>, <<13, "low">>,
     <<15, "high">>, <<17, "high">>}

\* parseFloat((n/d).toFixed(2)) in hundredths, n/d already in hundredths
ToFixed2(n, d, h, riskBias) ==
    IF (2 * n) % d = 0 /\ n % d # 0 /\ <<h, riskBias>> \in FloatTieDown
    THEN n \div d
    ELSE RoundDiv(n, d)

\* the multipliers [activity, visit, speed] as fractions, variation = h / 100
Multipliers(h, riskBias) ==
    CASE riskBias = "high" ->
            [activity |-> [n |-> 55 - h, d |-> 100],
             visit |-> [n |-> 50 - h, d |-> 100],
             speed |-> [n |-> 70 - h, d |-> 100]]
      [] riskBias = "moderate" ->
            [activity |-> [n |-> 150 - h, d |-> 200],
             visit |-> [n |-> 140 - h, d |-> 200],
             speed |-> [n |-> 85, d |-> 100]]
      [] OTHER ->
            [activity |-> [n |-> 190 + h, d |-> 200],
             visit |-> [n |-> 400 + h, d |-> 400],
             speed |-> [n |-> 90 + h, d |-> 100]]

generateSimulatedMetrics(animalId, baseline, riskBias, t) ==
    LET h == IdHash(animalId) % 20
        m == Multipliers(h, riskBias)
    IN  [animalId |-> animalId,
         timestamp |-> t,
         activityLevel |-> RoundDiv(baseline.avgActivityLevel * m.activity.n, m.activity.d),
         visitFrequency24h |-> RoundDiv(baseline.avgVisitFrequency * m.visit.n, m.visit.d),
         visitFrequency48h |-> RoundDiv(baseline.avgVisitFrequency * 2 * m.visit.n, m.visit.d),
         averageSpeed |-> ToFixed2(baseline.avgSpeed * m.speed.n, m.speed.d, h, riskBias),
         speedDeviation |-> baseline.speedStdDev]

\* ((current - base) / base) * 100 <= -k as the doubles decide it for integers:
\* base 0 gives -Infinity (true) under a negative numerator, else +Infinity or NaN
PercentChangeAtMost(current, base, k) ==
    IF base > 0 THEN 100 * (current - base) <= -k * base
    ELSE IF base < 0 THEN 100 * (current - base) >= -k * base
    ELSE current - base < 0

\* calculateActivitySignal with < for <= at the 30% threshold: a mutant
calculateActivitySignal_Strict(currentActivity, baselineActivity) ==
    IF PercentChangeAtMost(currentActivity, baselineActivity, 30)
        /\ 100 * (currentActivity - baselineActivity) # -30 * baselineActivity
    THEN [score |-> 40, description |-> "Activity reduced by N%", isActive |-> TRUE]
    ELSE IF PercentChangeAtMost(currentActivity, baselineActivity, 15)
    THEN [score |-> 25, description |-> "Activity reduced by N%", isActive |-> TRUE]
    ELSE IF PercentChangeAtMost(currentActivity, baselineActivity, 5)
    THEN [score |-> 10, description |-> "Activity slightly reduced by N%", isActive |-> FALSE]
    ELSE [score |-> 0, description |-> "Activity normal", isActive |-> FALSE]

calculateActivitySignal(currentActivity, baselineActivity) ==
    IF PercentChangeAtMost(currentActivity, baselineActivity, 30)
    THEN [score |-> 40, description |-> "Activity reduced by N%", isActive |-> TRUE]
    ELSE IF PercentChangeAtMost(currentActivity, baselineActivity, 15)
    THEN [score |-> 25, description |-> "Activity reduced by N%", isActive |-> TRUE]
    ELSE IF PercentChangeAtMost(currentActivity, baselineActivity, 5)
    THEN [score |-> 10, description |-> "Activity slightly reduced by N%", isActive |-> FALSE]
    ELSE [score |-> 0, description |-> "Activity normal", isActive |-> FALSE]

\* calculateVisitSignal without the 48h trend test: a mutant
calculateVisitSignal_NoTrend(visits24h, visits48h, baselineVisits) ==
    IF PercentChangeAtMost(visits24h, baselineVisits, 40)
    THEN [score |-> 35, description |-> "Corridor visits dropped by N% over 24h",
          isActive |-> TRUE]
    ELSE IF PercentChangeAtMost(visits24h, baselineVisits, 20)
    THEN [score |-> 20, description |-> "Corridor visits reduced by N%", isActive |-> TRUE]
    ELSE IF PercentChangeAtMost(visits24h, baselineVisits, 10)
    THEN [score |-> 10, description |-> "Slight decrease in visits", isActive |-> FALSE]
    ELSE [score |-> 0, description |-> "Visit frequency normal", isActive |-> FALSE]

calculateVisitSignal(visits24h, visits48h, baselineVisits) ==
    LET trend48h == 10 * visits48h < 18 * baselineVisits
    IN  IF PercentChangeAtMost(visits24h, baselineVisits, 40) \/ trend48h
        THEN [score |-> 35, description |-> "Corridor visits dropped by N% over 24h",
              isActive |-> TRUE]
        ELSE IF PercentChangeAtMost(visits24h, baselineVisits, 20)
        THEN [score |-> 20, description |-> "Corridor visits reduced by N%", isActive |-> TRUE]
        ELSE IF PercentChangeAtMost(visits24h, baselineVisits, 10)
        THEN [score |-> 10, description |-> "Slight decrease in visits", isActive |-> FALSE]
        ELSE [score |-> 0, description |-> "Visit frequency normal", isActive |-> FALSE]

\* Math.abs(current - base) / speedStdDev > p/q as the doubles decide it:
\* a zero divisor gives Infinity (true) over a nonzero difference and NaN over zero
SpeedDeviationAbove(currentSpeed, baselineSpeed, speedStdDev, p, q) ==
    IF speedStdDev > 0 THEN q * Abs(currentSpeed - baselineSpeed) > p * speedStdDev
    ELSE IF speedStdDev = 0 THEN Abs(currentSpeed - baselineSpeed) > 0
    ELSE FALSE

\* calculateSpeedSignal with 30 points in its top bucket: a mutant
calculateSpeedSignal_TopThirty(currentSpeed, baselineSpeed, speedStdDev) ==
    IF SpeedDeviationAbove(currentSpeed, baselineSpeed, speedStdDev, 5, 2)
    THEN [score |-> 30, description |-> "Speed anomaly detected (N std deviations)",
          isActive |-> TRUE]
    ELSE IF SpeedDeviationAbove(currentSpeed, baselineSpeed, speedStdDev, 3, 2)
    THEN [score |-> 15, description |-> "Moderate speed deviation detected", isActive |-> TRUE]
    ELSE IF SpeedDeviationAbove(currentSpeed, baselineSpeed, speedStdDev, 1, 1)
    THEN [score |-> 5, description |-> "Minor speed variation", isActive |-> FALSE]
    ELSE [score |-> 0, description |-> "Speed normal", isActive |-> FALSE]

calculateSpeedSignal(currentSpeed, baselineSpeed, speedStdDev) ==
    IF SpeedDeviationAbove(currentSpeed, baselineSpeed, speedStdDev, 5, 2)
    THEN [score |-> 25, description |-> "Speed anomaly detected (N std deviations)",
          isActive |-> TRUE]
    ELSE IF SpeedDeviationAbove(currentSpeed, baselineSpeed, speedStdDev, 3, 2)
    THEN [score |-> 15, description |-> "Moderate speed deviation detected", isActive |-> TRUE]
    ELSE IF SpeedDeviationAbove(currentSpeed, baselineSpeed, speedStdDev, 1, 1)
    THEN [score |-> 5, description |-> "Minor speed variation", isActive |-> FALSE]
    ELSE [score |-> 0, description |-> "Speed normal", isActive |-> FALSE]

\* calculateRiskLevel with the HIGH threshold one bucket up: a mutant
calculateRiskLevel_HighLate(totalScore) ==
    IF totalScore >= 71 THEN "HIGH"
    ELSE IF totalScore >= 31 THEN "MODERATE"
    ELSE "LOW"

\* calculateRiskLevel with the MODERATE threshold one bucket down: a mutant
calculateRiskLevel_ModerateEarly(totalScore) ==
    IF totalScore >= 66 THEN "HIGH"
    ELSE IF totalScore >= 21 THEN "MODERATE"
    ELSE "LOW"

calculateRiskLevel(totalScore) ==
    IF totalScore >= 66 THEN "HIGH"
    ELSE IF totalScore >= 31 THEN "MODERATE"
    ELSE "LOW"

\* the descriptions of the active signals, in the order activity, visit, speed
ActiveDescriptions(activity, visit, speed) ==
    (IF activity.isActive THEN <<activity.description>> ELSE <<>>)
    \o (IF visit.isActive THEN <<visit.description>> ELSE <<>>)
    \o (IF speed.isActive THEN <<speed.description>> ELSE <<>>)

\* lines 139-155: the three signals calculateHealthRisk computes first
HerdSignals(currentMetrics, baseline) ==
    [activity |-> calculateActivitySignal(currentMetrics.activityLevel,
                                          baseline.avgActivityLevel),
     visit |-> calculateVisitSignal(currentMetrics.visitFrequency24h,
                                    currentMetrics.visitFrequency48h,
                                    baseline.avgVisitFrequency),
     speed |-> calculateSpeedSignal(currentMetrics.averageSpeed,
                                    baseline.avgSpeed, baseline.speedStdDev)]

calculateHealthRisk(animalId, currentMetrics, baseline, t) ==
    LET activitySignal == HerdSignals(currentMetrics, baseline).activity
        visitSignal == HerdSignals(currentMetrics, baseline).visit
        speedSignal == HerdSignals(currentMetrics, baseline).speed
        totalScore == activitySignal.score + visitSignal.score + speedSignal.score
        factors == ActiveDescriptions(activitySignal, visitSignal, speedSignal)
    IN  [animalId |-> animalId,
         timestamp |-> t,
         riskLevel |-> calculateRiskLevel(totalScore),
         riskScore |-> totalScore,
         signals |-> [activityDrop |-> activitySignal.isActive,
                      speedAnomaly |-> speedSignal.isActive,
                      visitReduction |-> visitSignal.isActive],
         contributingFactors |->
            IF Len(factors) = 0 THEN <<"All health indicators within normal range">>
            ELSE factors]

(***************************************************************************)
(* calculateDeviation (src/components/StatCard.tsx) and the explanation    *)
(* generator (src/lib/explainable-health.ts)                               *)
(***************************************************************************)
\* calculateDeviation(current, baseline): the percentage (current - b) / b * 100
\* for the mean b = n/d, as the fraction 100 * (current * d - n) / n; 0 for b = 0
calculateDeviation(current, baseline) ==
    IF baseline.n = 0 THEN ZeroRat
    ELSE [n |-> 100 * (current * baseline.d - baseline.n), d |-> baseline.n]

\* deviation <= -k and |deviation| >= k for a percentage held as a fraction, d > 0
DevAtMostMinus(dev, k) == dev.n <= -k * dev.d

AbsDevAtLeast(dev, k) == Abs(dev.n) >= k * dev.d

\* Math.abs(deviationPct) / (stdDev * 100) > p/q, stdDev * 100 = sqrt(sq)/den
ZScoreAbove(dev, stdDev, p, q) ==
    SqGT(q * Abs(dev.n) * stdDev.den, p * dev.d, stdDev.sq)

\* calculateActivityImpact that gives the top impact from 15% on: a mutant
calculateActivityImpact_EarlyTop(deviationPct) ==
    IF AbsDevAtLeast(deviationPct, 15) THEN 40
    ELSE IF AbsDevAtLeast(deviationPct, 5) THEN 10
    ELSE 0

calculateActivityImpact(deviationPct) ==
    IF AbsDevAtLeast(deviationPct, 30) THEN 40
    ELSE IF AbsDevAtLeast(deviationPct, 15) THEN 25
    ELSE IF AbsDevAtLeast(deviationPct, 5) THEN 10
    ELSE 0

\* calculateVisitImpact with the ladder of the activity impact: a mutant
calculateVisitImpact_ActivityLadder(deviationPct) ==
    IF AbsDevAtLeast(deviationPct, 30) THEN 40
    ELSE IF AbsDevAtLeast(deviationPct, 15) THEN 25
    ELSE IF AbsDevAtLeast(deviationPct, 5) THEN 10
    ELSE 0

calculateVisitImpact(deviationPct) ==
    IF AbsDevAtLeast(deviationPct, 40) THEN 35
    ELSE IF AbsDevAtLeast(deviationPct, 20) THEN 20
    ELSE IF AbsDevAtLeast(deviationPct, 10) THEN 10
    ELSE 0

calculateSpeedImpact(deviationPct, stdDev) ==
    IF stdDev.sq = 0 THEN 0
    ELSE IF ZScoreAbove(deviationPct, stdDev, 5, 2) THEN 25
    ELSE IF ZScoreAbove(deviationPct, stdDev, 3, 2) THEN 15
    ELSE IF ZScoreAbove(deviationPct, stdDev, 1, 1) THEN 5
    ELSE 0

\* contributors.sort((a, b) => b.impact - a.impact): a stable insertion sort
RECURSIVE InsertByImpact(_, _)
InsertByImpact(sorted, c) ==
    IF sorted = <<>> THEN <<c>>
    ELSE IF Head(sorted).impact >= c.impact
         THEN <<Head(sorted)>> \o InsertByImpact(Tail(sorted), c)
         ELSE <<c>> \o sorted

RECURSIVE SortByImpact(_)
SortByImpact(cs) ==
    IF cs = <<>> THEN <<>>
    ELSE InsertByImpact(SortByImpact(SubSeq(cs, 1, Len(cs) - 1)), cs[Len(cs)])

buildContributorBreakdown(assessment, currentMetrics, baseline) ==
    LET aDev == calculateDeviation(currentMetrics.activityLevel, baseline.avgActivityLevel)
        aImpact == calculateActivityImpact(aDev)
        vDev == calculateDeviation(currentMetrics.visitFrequency24h, baseline.avgVisitsPerDay)
        vImpact == calculateVisitImpact(vDev)
        sDev == calculateDeviation(currentMetrics.averageSpeed, baseline.avgSpeed)
        sImpact == calculateSpeedImpact(sDev, baseline.speedStdDev)
    IN  SortByImpact(
            (IF assessment.signals.activityDrop /\ aImpact > 0
             THEN <<[signal |-> "Low Activity", impact |-> aImpact]>> ELSE <<>>)
            \o (IF assessment.signals.visitReduction /\ vImpact > 0
                THEN <<[signal |-> "Reduced Visits", impact |-> vImpact]>> ELSE <<>>)
            \o (IF assessment.signals.speedAnomaly /\ sImpact > 0
                THEN <<[signal |-> "Slower Speed", impact |-> sImpact]>> ELSE <<>>))

\* calculateConfidence asking for both conditions for MEDIUM: a mutant
calculateConfidence_BothForMedium(consistencyDays, baselineStatus, signalCount) ==
    IF baselineStatus # "STABLE" THEN "LOW"
    ELSE IF consistencyDays >= 5 /\ signalCount >= 2 THEN "HIGH"
    ELSE IF consistencyDays >= 3 /\ signalCount >= 2 THEN "MEDIUM"
    ELSE "LOW"

calculateConfidence(consistencyDays, baselineStatus, signalCount) ==
    IF baselineStatus # "STABLE" THEN "LOW"
    ELSE IF consistencyDays >= 5 /\ signalCount >= 2 THEN "HIGH"
    ELSE IF consistencyDays >= 3 \/ signalCount >= 2 THEN "MEDIUM"
    ELSE "LOW"

generateRecommendation(riskLevel, driftState, confidenceLevel, contributorCount) ==
    IF riskLevel = "HIGH"
    THEN (IF contributorCount >= 2 THEN "Immediate consultation: multiple signals"
          ELSE "Immediate consultation: significant concern")
    ELSE IF riskLevel = "MODERATE"
    THEN (IF confidenceLevel = "HIGH" THEN "Schedule check-up within 24-48 hours"
          ELSE IF confidenceLevel = "MEDIUM" THEN "Consider scheduling check-up"
          ELSE "Monitor closely")
    ELSE IF driftState = "EARLY_DRIFT" THEN "Early warning: consider preventive check-up"
    ELSE IF driftState = "ACTION_REQUIRED" THEN "Sustained drift: preventive consultation"
    ELSE "Continue normal monitoring"

generateHealthExplanation(assessment, currentMetrics, baseline, consistencyDays, driftState) ==
    LET contributors == buildContributorBreakdown(assessment, currentMetrics, baseline)
        confidenceLevel == calculateConfidence(consistencyDays, assessment.baselineStatus,
                                               Len(contributors))
    IN  [healthScore |-> 100 - assessment.riskScore,
         contributors |-> contributors,
         confidenceLevel |-> confidenceLevel,
         consistencyDays |-> consistencyDays,
         baselineReference |-> IF assessment.baselineUsed THEN "Personal baseline"
                               ELSE "Herd-level baseline",
         recommendation |-> generateRecommendation(assessment.riskLevel, driftState,
                                                   confidenceLevel, Len(contributors))]

(***************************************************************************)
(* calculatePersonalizedHealthRisk (src/unnamed/part_006, lines 194-344)   *)
(***************************************************************************)
\* PersonalActivitySignal with the sign of its last threshold lost: a mutant
PersonalActivitySignal_SignSlip(activityDeviation) ==
    IF DevAtMostMinus(activityDeviation, 30)
    THEN [score |-> 40, description |-> "Activity N% below personal baseline",
          isActive |-> TRUE]
    ELSE IF DevAtMostMinus(activityDeviation, 15)
    THEN [score |-> 25, description |-> "Activity N% below personal baseline",
          isActive |-> TRUE]
    ELSE IF DevAtMostMinus(activityDeviation, -5)
    THEN [score |-> 10, description |-> "Slight activity reduction from personal baseline",
          isActive |-> FALSE]
    ELSE [score |-> 0, description |-> "Activity normal for this animal", isActive |-> FALSE]

\* lines 237-254: the activity signal from the personal deviation
PersonalActivitySignal(activityDeviation) ==
    IF DevAtMostMinus(activityDeviation, 30)
    THEN [score |-> 40, description |-> "Activity N% below personal baseline",
          isActive |-> TRUE]
    ELSE IF DevAtMostMinus(activityDeviation, 15)
    THEN [score |-> 25, description |-> "Activity N% below personal baseline",
          isActive |-> TRUE]
    ELSE IF DevAtMostMinus(activityDeviation, 5)
    THEN [score |-> 10, description |-> "Slight activity reduction from personal baseline",
          isActive |-> FALSE]
    ELSE [score |-> 0, description |-> "Activity normal for this animal", isActive |-> FALSE]

\* PersonalVisitSignal with the minor decrease counted as active: a mutant
PersonalVisitSignal_MinorActive(visitDeviation) ==
    IF DevAtMostMinus(visitDeviation, 40)
    THEN [score |-> 35, description |-> "Visits N% below personal baseline",
          isActive |-> TRUE]
    ELSE IF DevAtMostMinus(visitDeviation, 20)
    THEN [score |-> 20, description |-> "Visits N% below personal baseline",
          isActive |-> TRUE]
    ELSE IF DevAtMostMinus(visitDeviation, 10)
    THEN [score |-> 10, description |-> "Minor decrease in visits from personal baseline",
          isActive |-> TRUE]
    ELSE [score |-> 0, description |-> "Corridor visits normal for this animal",
          isActive |-> FALSE]

\* lines 256-273: the visit signal from the personal 24h deviation
PersonalVisitSignal(visitDeviation) ==
    IF DevAtMostMinus(visitDeviation, 40)
    THEN [score |-> 35, description |-> "Visits N% below personal baseline",
          isActive |-> TRUE]
    ELSE IF DevAtMostMinus(visitDeviation, 20)
    THEN [score |-> 20, description |-> "Visits N% below personal baseline",
          isActive |-> TRUE]
    ELSE IF DevAtMostMinus(visitDeviation, 10)
    THEN [score |-> 10, description |-> "Minor decrease in visits from personal baseline",
          isActive |-> FALSE]
    ELSE [score |-> 0, description |-> "Corridor visits normal for this animal",
          isActive |-> FALSE]

\* lines 275-296: the speed signal from the z-score, 0 unless speedStdDev > 0
PersonalSpeedSignal(speedDeviation, speedStdDev) ==
    IF speedStdDev.sq > 0 /\ ZScoreAbove(speedDeviation, speedStdDev, 5, 2)
    THEN [score |-> 25, description |-> "Significant speed anomaly (N sigma)",
          isActive |-> TRUE]
    ELSE IF speedStdDev.sq > 0 /\ ZScoreAbove(speedDeviation, speedStdDev, 3, 2)
    THEN [score |-> 15, description |-> "Moderate speed deviation from personal baseline",
          isActive |-> TRUE]
    ELSE IF speedStdDev.sq > 0 /\ ZScoreAbove(speedDeviation, speedStdDev, 1, 1)
    THEN [score |-> 5, description |-> "Minor speed variation from personal baseline",
          isActive |-> FALSE]
    ELSE [score |-> 0, description |-> "Speed normal for this animal", isActive |-> FALSE]

\* lines 202-219: the result while the baseline is not STABLE
LearningAssessment(animalId, personalBaseline, t) ==
    [animalId |-> animalId,
     timestamp |-> t,
     riskLevel |-> "LOW",
     riskScore |-> 0,
     signals |-> [activityDrop |-> FALSE, speedAnomaly |-> FALSE, visitReduction |-> FALSE],
     contributingFactors |-> <<"Baseline learning in progress">>,
     baselineUsed |-> FALSE,
     deviationScore |-> <<ZeroRat, ZeroRat, ZeroRat>>,
     baselineStatus |-> "LEARNING",
     learningProgress |-> calculateLearningProgress(personalBaseline, t)]

\* lines 221-296: the deviations and the three signals of the personalized path
PersonalSignals(currentMetrics, personalBaseline) ==
    LET activityDeviation == calculateDeviation(currentMetrics.activityLevel,
                                                personalBaseline.avgActivityLevel)
        visitDeviation == calculateDeviation(currentMetrics.visitFrequency24h,
                                             personalBaseline.avgVisitsPerDay)
        speedDeviation == calculateDeviation(currentMetrics.averageSpeed,
                                             personalBaseline.avgSpeed)
    IN  [activityDeviation |-> activityDeviation,
         visitDeviation |-> visitDeviation,
         speedDeviation |-> speedDeviation,
         activity |-> PersonalActivitySignal(activityDeviation),
         visit |-> PersonalVisitSignal(visitDeviation),
         speed |-> PersonalSpeedSignal(speedDeviation, personalBaseline.speedStdDev)]

\* deviationScore is the mean of the three absolute deviations; it is held as the
\* triple of the deviations it averages
calculatePersonalizedHealthRisk(animalId, currentMetrics, personalBaseline, consistencyDays, driftState, t) ==
    IF ~isBaselineReady(personalBaseline)
    THEN LearningAssessment(animalId, personalBaseline, t)
    ELSE
    LET locals == PersonalSignals(currentMetrics, personalBaseline)
        activityDeviation == locals.activityDeviation
        visitDeviation == locals.visitDeviation
        speedDeviation == locals.speedDeviation
        activity == locals.activity
        visit == locals.visit
        speed == locals.speed
        totalScore == activity.score + visit.score + speed.score
        factors == ActiveDescriptions(activity, visit, speed)
        assessment ==
            [animalId |-> animalId,
             timestamp |-> t,
             riskLevel |-> calculateRiskLevel(totalScore),
             riskScore |-> totalScore,
             signals |-> [activityDrop |-> activity.isActive,
                          speedAnomaly |-> speed.isActive,
                          visitReduction |-> visit.isActive],
             contributingFactors |->
                IF Len(factors) = 0
                THEN <<"All health indicators within personal normal range">>
                ELSE factors,
             baselineUsed |-> TRUE,
             deviationScore |-> <<activityDeviation, visitDeviation, speedDeviation>>,
             baselineStatus |-> "STABLE"]
    IN  [animalId |-> assessment.animalId,
         timestamp |-> assessment.timestamp,
         riskLevel |-> assessment.riskLevel,
         riskScore |-> assessment.riskScore,
         signals |-> assessment.signals,
         contributingFactors |-> assessment.contributingFactors,
         baselineUsed |-> assessment.baselineUsed,
         deviationScore |-> assessment.deviationScore,
         baselineStatus |-> assessment.baselineStatus,
         explanation |-> generateHealthExplanation(assessment, currentMetrics,
                                                   personalBaseline, consistencyDays,
                                                   driftState)]

(***************************************************************************)
(* drift-detection (src/lib/drift-detection.ts).  A date string            *)
(* YYYY-MM-DD is held as the number of its UTC day; new Date(date) is the  *)
(* midnight that opens it.  The server's time zone is UTC.                 *)
(***************************************************************************)
ROLLING_WINDOW_DAYS == 7
MIN_DEVIATION_PCT == 5
MAX_DEVIATION_PCT == 15
CONSECUTIVE_DAYS == 3
MIN_SIGNALS == 2
ACTION_THRESHOLD_DAYS == 5

Null == [none |-> TRUE]

\* new Date().toISOString().split('T')[0]
IsoDay(t) == t \div TicksPerDay

\* new Date(date).getTime()
DayStart(date) == date * TicksPerDay

\* the band without its upper end: a mutant
InDriftBand_HalfOpen(dev) ==
    AbsDevAtLeast(dev, MIN_DEVIATION_PCT) /\ Abs(dev.n) < MAX_DEVIATION_PCT * dev.d

\* absX >= MIN_DEVIATION_PCT && absX <= MAX_DEVIATION_PCT for a fraction, d > 0
InDriftBand(dev) ==
    AbsDevAtLeast(dev, MIN_DEVIATION_PCT) /\ Abs(dev.n) <= MAX_DEVIATION_PCT * dev.d

calculateDailyDeviation(currentMetrics, baseline, t) ==
    LET activityDelta == calculateDeviation(currentMetrics.activityLevel,
                                            baseline.avgActivityLevel)
        speedDelta == calculateDeviation(currentMetrics.averageSpeed, baseline.avgSpeed)
        visitDelta == calculateDeviation(currentMetrics.visitFrequency24h,
                                         baseline.avgVisitsPerDay)
    IN  [date |-> IsoDay(t),
         activityDeltaPct |-> activityDelta,
         speedDeltaPct |-> speedDelta,
         visitDeltaPct |-> visitDelta,
         flagCount |-> (IF InDriftBand(activityDelta) THEN 1 ELSE 0)
                       + (IF InDriftBand(speedDelta) THEN 1 ELSE 0)
                       + (IF InDriftBand(visitDelta) THEN 1 ELSE 0)]

\* sort((a, b) => new Date(b.date) - new Date(a.date)): a stable insertion sort
RECURSIVE InsertByDateDesc(_, _)
InsertByDateDesc(sorted, dev) ==
    IF sorted = <<>> THEN <<dev>>
    ELSE IF Head(sorted).date >= dev.date
         THEN <<Head(sorted)>> \o InsertByDateDesc(Tail(sorted), dev)
         ELSE <<dev>> \o sorted

RECURSIVE SortByDateDesc(_)
SortByDateDesc(devs) ==
    IF devs = <<>> THEN <<>>
    ELSE InsertByDateDesc(SortByDateDesc(SubSeq(devs, 1, Len(devs) - 1)), devs[Len(devs)])

\* filter(d => new Date(d.date) >= cutoffDate), cutoffDate days before t
RECURSIVE SinceCutoff(_, _)
SinceCutoff(devs, cutoff) ==
    IF devs = <<>> THEN <<>>
    ELSE (IF DayStart(Head(devs).date) >= cutoff THEN <<Head(devs)>> ELSE <<>>)
         \o SinceCutoff(Tail(devs), cutoff)

filterToRollingWindow(allDeviations, windowDays, t) ==
    SortByDateDesc(SinceCutoff(allDeviations, t - windowDays * TicksPerDay))

\* the count of all days with flagCount >= MIN_SIGNALS, a break not ending it: a mutant
RECURSIVE DriftRun_PastBreak(_)
DriftRun_PastBreak(sorted) ==
    IF sorted = <<>> THEN 0
    ELSE (IF Head(sorted).flagCount < MIN_SIGNALS THEN 0 ELSE 1)
         + DriftRun_PastBreak(Tail(sorted))

\* the length of the leading run of days with flagCount >= MIN_SIGNALS
RECURSIVE DriftRun(_)
DriftRun(sorted) ==
    IF sorted = <<>> \/ Head(sorted).flagCount < MIN_SIGNALS THEN 0
    ELSE 1 + DriftRun(Tail(sorted))

\* triggeredSignals.add(name): a Set keeps the order of first insertion
AddSignal(signals, name, cond) ==
    IF cond /\ \A i \in 1..Len(signals) : signals[i] # name
    THEN Append(signals, name) ELSE signals

RECURSIVE TriggeredSignals(_, _)
TriggeredSignals(run, signals) ==
    IF run = <<>> THEN signals
    ELSE LET d == Head(run)
             s1 == AddSignal(signals, "activity",
                             AbsDevAtLeast(d.activityDeltaPct, MIN_DEVIATION_PCT))
             s2 == AddSignal(s1, "speed", AbsDevAtLeast(d.speedDeltaPct, MIN_DEVIATION_PCT))
             s3 == AddSignal(s2, "visits", AbsDevAtLeast(d.visitDeltaPct, MIN_DEVIATION_PCT))
         IN  TriggeredSignals(Tail(run), s3)

detectConsecutiveDrift(deviations) ==
    LET sorted == SortByDateDesc(deviations)
        consecutiveDays == DriftRun(sorted)
    IN  [hasConsecutiveDrift |-> consecutiveDays >= CONSECUTIVE_DAYS,
         consecutiveDays |-> consecutiveDays,
         triggeredSignals |-> TriggeredSignals(SubSeq(sorted, 1, consecutiveDays), <<>>)]

\* |a| > |b| for fractions with positive denominators
AbsFracGT(a, b) == ProdGT(Abs(a.n), b.d, Abs(b.n), a.d)

AbsFracMax(a, b) == IF AbsFracGT(b, a) THEN b ELSE a

\* Math.abs of a fraction with a positive denominator
AbsRat(a) == [n |-> Abs(a.n), d |-> a.d]

\* Math.max over the days of the largest absolute delta of the day; 0 for no days
RECURSIVE MaxDeviation(_)
MaxDeviation(devs) ==
    IF devs = <<>> THEN ZeroRat
    ELSE LET d == Head(devs)
         IN  AbsFracMax(AbsFracMax(AbsFracMax(AbsRat(d.activityDeltaPct),
                                              AbsRat(d.speedDeltaPct)),
                                   AbsRat(d.visitDeltaPct)),
                        MaxDeviation(Tail(devs)))

\* calculateDriftState with the band's upper end taken as already too much: a mutant
calculateDriftState_AtFifteen(consecutiveDays, maxDeviation) ==
    IF consecutiveDays >= ACTION_THRESHOLD_DAYS
        \/ maxDeviation.n >= MAX_DEVIATION_PCT * maxDeviation.d
    THEN "ACTION_REQUIRED"
    ELSE IF consecutiveDays >= CONSECUTIVE_DAYS THEN "EARLY_DRIFT"
    ELSE "STABLE"

\* maxDeviation is a fraction with a positive denominator
calculateDriftState(consecutiveDays, maxDeviation) ==
    IF consecutiveDays >= ACTION_THRESHOLD_DAYS
        \/ maxDeviation.n > MAX_DEVIATION_PCT * maxDeviation.d
    THEN "ACTION_REQUIRED"
    ELSE IF consecutiveDays >= CONSECUTIVE_DAYS THEN "EARLY_DRIFT"
    ELSE "STABLE"

generateEarlyWarningMessage(driftState, consecutiveDays, triggeredSignals) ==
    IF driftState = "STABLE" THEN Null
    ELSE [text |-> IF driftState = "EARLY_DRIFT"
                   THEN "Micro-deviations detected: consider preventive check-up"
                   ELSE "Sustained behavioral drift: veterinary consultation recommended",
          consecutiveDays |-> consecutiveDays,
          signalsList |-> triggeredSignals]

generateEarlyWarningAssessment(animalId, recentDeviations, t) ==
    LET windowDeviations == filterToRollingWindow(recentDeviations, ROLLING_WINDOW_DAYS, t)
        drift == detectConsecutiveDrift(windowDeviations)
        maxDeviation == MaxDeviation(windowDeviations)
        driftState == calculateDriftState(drift.consecutiveDays, maxDeviation)
    IN  [animalId |-> animalId,
         driftState |-> driftState,
         consecutiveDaysWithDrift |-> drift.consecutiveDays,
         recentDeviations |-> windowDeviations,
         triggeredSignals |-> drift.triggeredSignals,
         earlyWarningMessage |-> generateEarlyWarningMessage(driftState,
                                    drift.consecutiveDays, drift.triggeredSignals)]

(***************************************************************************)
(* gemini (src/lib/explainable-health.ts, lines 265-353)                   *)
(***************************************************************************)
generateRecommendations(severity, signals) ==
    IF severity = "HIGH"
    THEN <<"Immediate isolation and veterinary inspection required">>
         \o (IF signals.activityDrop
             THEN <<"Monitor for signs of lameness, injury, or respiratory distress">>
             ELSE <<>>)
         \o (IF signals.visitReduction
             THEN <<"Check feeding and watering systems; ensure accessibility">>
             ELSE <<>>)
         \o (IF signals.speedAnomaly
             THEN <<"Physical examination for potential pain or discomfort">>
             ELSE <<>>)
         \o <<"Document all observations for veterinary review">>
    ELSE IF severity = "MODERATE"
    THEN <<"Increased monitoring recommended">>
         \o (IF signals.activityDrop \/ signals.visitReduction
             THEN <<"Observe behavior patterns over next 24 hours",
                    "Ensure adequate nutrition and hydration access">>
             ELSE <<>>)
         \o (IF signals.speedAnomaly
             THEN <<"Check for environmental stressors or herd dynamics issues">>
             ELSE <<>>)
         \o <<"Schedule veterinary consultation if symptoms persist">>
    ELSE <<"Continue routine monitoring", "Maintain current feeding and care schedule">>

\* the text is held as its parts: the subject, the level and the listed factors
generateExplanation(animalId, assessment) ==
    [animalId |-> animalId,
     riskLevel |-> assessment.riskLevel,
     because |-> IF Len(assessment.contributingFactors) > 0 /\ assessment.riskLevel # "LOW"
                 THEN assessment.contributingFactors
                 ELSE <<>>]

createAlertFromAssessment(assessment, t) ==
    [animalId |-> assessment.animalId,
     severity |-> assessment.riskLevel,
     timestamp |-> t,
     explanation |-> generateExplanation(assessment.animalId, assessment),
     recommendations |-> generateRecommendations(assessment.riskLevel, assessment.signals),
     signals |-> assessment.signals,
     riskScore |-> assessment.riskScore]

(***************************************************************************)
(* The records of the data store's seed and of createAnimal                *)
(* (src/lib/data-store.ts).  The seed is written at module load, tick 0.   *)
(***************************************************************************)
\* createAnimal, lines 247-254: the herd baseline every created animal gets
CreatedHealthBaseline(animalId) ==
    [animalId |-> animalId,
     avgActivityLevel |-> 1000,
     avgVisitFrequency |-> 6,
     avgSpeed |-> 350,
     speedStdDev |-> 50]

\* initializeSeedData, lines 90-101: cow1Baseline
Cow1Baseline(loadedAt) ==
    [animalId |-> <<"COW", 101>>,
     avgSpeed |-> Whole(380),
     avgVisitsPerDay |-> Whole(7),
     avgActivityLevel |-> Whole(1050),
     speedStdDev |-> [sq |-> 42 * 42, den |-> 1],
     activityStdDev |-> [sq |-> 87 * 87, den |-> 1],
     baselineStartDate |-> loadedAt - 20 * TicksPerDay,
     baselineStatus |-> "STABLE",
     dataPointsCollected |-> 28,
     requiredDataPoints |-> 20]

\* initializeSeedData, lines 215-226: buf1Baseline
Buf1Baseline(loadedAt) ==
    [animalId |-> <<"BUFFALO", 201>>,
     avgSpeed |-> Whole(280),
     avgVisitsPerDay |-> [n |-> 52, d |-> 10],
     avgActivityLevel |-> Whole(780),
     speedStdDev |-> [sq |-> 30 * 30, den |-> 1],
     activityStdDev |-> [sq |-> 65 * 65, den |-> 1],
     baselineStartDate |-> loadedAt - 3 * TicksPerDay,
     baselineStatus |-> "LEARNING",
     dataPointsCollected |-> 5,
     requiredDataPoints |-> 20]

NoRet == [none |-> TRUE]

EmptyStore ==
    /\ animals = <<>>
    /\ healthBaselines = <<>>
    /\ animalBaselines = <<>>
    /\ healthMetrics = <<>>
    /\ riskAssessments = <<>>
    /\ geminiAlerts = <<>>
    /\ dailyDeviations = <<>>
    /\ earlyWarnings = <<>>
    /\ animalIdCounter = <<>>
    /\ alertSeq = 0
    /\ response = NoRet
    /\ requests = 0

(***************************************************************************)
(* data-store (src/lib/data-store.ts).  The operations act on the store S, *)
(* the record of the module's maps, arrays and counters, and return the    *)
(* store they leave.  A Map is a function on its keys.                     *)
(***************************************************************************)
Store ==
    [animals |-> animals,
     healthBaselines |-> healthBaselines,
     animalBaselines |-> animalBaselines,
     healthMetrics |-> healthMetrics,
     riskAssessments |-> riskAssessments,
     geminiAlerts |-> geminiAlerts,
     dailyDeviations |-> dailyDeviations,
     earlyWarnings |-> earlyWarnings,
     animalIdCounter |-> animalIdCounter,
     alertSeq |-> alertSeq,
     response |-> response]

\* the step that leaves the store S
StoreBecomes(S) ==
    /\ animals' = S.animals
    /\ healthBaselines' = S.healthBaselines
    /\ animalBaselines' = S.animalBaselines
    /\ healthMetrics' = S.healthMetrics
    /\ riskAssessments' = S.riskAssessments
    /\ geminiAlerts' = S.geminiAlerts
    /\ dailyDeviations' = S.dailyDeviations
    /\ earlyWarnings' = S.earlyWarnings
    /\ animalIdCounter' = S.animalIdCounter
    /\ alertSeq' = S.alertSeq
    /\ response' = S.response

\* map.set(key, value)
MapSet(map, key, value) ==
    [k \in DOMAIN map \cup {key} |-> IF k = key THEN value ELSE map[k]]

\* map.get(key) || []
GetOrEmpty(map, key) == IF key \in DOMAIN map THEN map[key] ELSE <<>>

\* a percentage written with one decimal
Tenths(k) == [n |-> k, d |-> 10]

SeedDeviation(day, a, s, v, flagCount) ==
    [date |-> day,
     activityDeltaPct |-> Tenths(a),
     speedDeltaPct |-> Tenths(s),
     visitDeltaPct |-> Tenths(v),
     flagCount |-> flagCount]

\* initializeSeedData, lines 133-144: cow2Baseline
Cow2Baseline(loadedAt) ==
    [animalId |-> <<"COW", 102>>,
     avgSpeed |-> Whole(360),
     avgVisitsPerDay |-> [n |-> 65, d |-> 10],
     avgActivityLevel |-> Whole(980),
     speedStdDev |-> [sq |-> 38 * 38, den |-> 1],
     activityStdDev |-> [sq |-> 82 * 82, den |-> 1],
     baselineStartDate |-> loadedAt - 18 * TicksPerDay,
     baselineStatus |-> "STABLE",
     dataPointsCollected |-> 25,
     requiredDataPoints |-> 20]

\* initializeSeedData, lines 174-185: cow3Baseline
Cow3Baseline(loadedAt) ==
    [animalId |-> <<"COW", 103>>,
     avgSpeed |-> Whole(320),
     avgVisitsPerDay |-> Whole(8),
     avgActivityLevel |-> Whole(920),
     speedStdDev |-> [sq |-> 35 * 35, den |-> 1],
     activityStdDev |-> [sq |-> 75 * 75, den |-> 1],
     baselineStartDate |-> loadedAt - 22 * TicksPerDay,
     baselineStatus |-> "STABLE",
     dataPointsCollected |-> 30,
     requiredDataPoints |-> 20]

\* the draws of Math.random() in lines 110-112, as the tenths of a percent they
\* give: activity in [-2, 2), speed in [-1.5, 1.5), visits in [-3, 3)
SeedDraws == {[a |-> -19, s |-> 14, v |-> 0], [a |-> 19, s |-> -14, v |-> -29]}

\* lines 105-116: seven days of small fluctuations, oldest first; the days take
\* the draw and its mirror image in turn
Cow1Deviations(loadedAt, draw) ==
    [k \in 1..7 |->
        LET sign == IF k % 2 = 1 THEN 1 ELSE -1
        IN  SeedDeviation(IsoDay(loadedAt - (7 - k) * TicksPerDay),
                          sign * draw.a, sign * draw.s, sign * draw.v, 0)]

\* lines 148-156: the early-lameness pattern
Cow2Deviations(loadedAt) ==
    LET day(i) == IsoDay(loadedAt - i * TicksPerDay)
    IN  <<SeedDeviation(day(6), -21, -18, -35, 0),
          SeedDeviation(day(5), -62, -54, -81, 2),
          SeedDeviation(day(4), -78, -69, -97, 2),
          SeedDeviation(day(3), -84, -72, -112, 3),
          SeedDeviation(day(2), -91, -86, -128, 3),
          SeedDeviation(day(1), -103, -98, -141, 3),
          SeedDeviation(day(0), -117, -104, -153, 3)>>

\* lines 189-197: the mastitis-like pattern
Cow3Deviations(loadedAt) ==
    LET day(i) == IsoDay(loadedAt - i * TicksPerDay)
    IN  <<SeedDeviation(day(6), -182, -52, -224, 2),
          SeedDeviation(day(5), -246, -78, -289, 2),
          SeedDeviation(day(4), -283, -94, -327, 2),
          SeedDeviation(day(3), -315, -112, -385, 2),
          SeedDeviation(day(2), -338, -126, -423, 2),
          SeedDeviation(day(1), -352, -141, -456, 2),
          SeedDeviation(day(0), -368, -153, -482, 2)>>

AnimalProfile(id, species, registeredAt) ==
    [id |-> id, species |-> species, registeredAt |-> registeredAt]

\* the store after initializeSeedData() at module load; healthBaselines stays
\* empty and animalIdCounter keeps its initial values (lines 34-39)
initializeSeedData(loadedAt, draw) ==
    LET cow1Id == <<"COW", 101>>
        cow2Id == <<"COW", 102>>
        cow3Id == <<"COW", 103>>
        buf1Id == <<"BUFFALO", 201>>
    IN  [animals |->
            MapSet(MapSet(MapSet(MapSet(<<>>,
                cow1Id, AnimalProfile(cow1Id, "Cow", loadedAt - 20 * TicksPerDay)),
                cow2Id, AnimalProfile(cow2Id, "Cow", loadedAt - 18 * TicksPerDay)),
                cow3Id, AnimalProfile(cow3Id, "Cow", loadedAt - 22 * TicksPerDay)),
                buf1Id, AnimalProfile(buf1Id, "Buffalo", loadedAt - 3 * TicksPerDay)),
         healthBaselines |-> <<>>,
         animalBaselines |->
            MapSet(MapSet(MapSet(MapSet(<<>>,
                cow1Id, Cow1Baseline(loadedAt)),
                cow2Id, Cow2Baseline(loadedAt)),
                cow3Id, Cow3Baseline(loadedAt)),
                buf1Id, Buf1Baseline(loadedAt)),
         healthMetrics |-> <<>>,
         riskAssessments |-> <<>>,
         geminiAlerts |-> <<>>,
         dailyDeviations |->
            MapSet(MapSet(MapSet(<<>>,
                cow1Id, Cow1Deviations(loadedAt, draw)),
                cow2Id, Cow2Deviations(loadedAt)),
                cow3Id, Cow3Deviations(loadedAt)),
         earlyWarnings |-> <<>>,
         animalIdCounter |-> [Cow |-> 101, Buffalo |-> 201, Goat |-> 301, Sheep |-> 401],
         alertSeq |-> 0,
         response |-> NoRet]

\* `${prefix}-${id.toString().padStart(3, '0')}` of the counter before its ++
generateAnimalId(S, species) == <<SpeciesPrefix(species), S.animalIdCounter[species]>>

createAnimal(S, species, t) ==
    LET id == generateAnimalId(S, species)
    IN  [S EXCEPT
            !.animalIdCounter = [S.animalIdCounter EXCEPT ![species] = @ + 1],
            !.animals = MapSet(S.animals, id, AnimalProfile(id, species, t)),
            !.healthBaselines = MapSet(S.healthBaselines, id, CreatedHealthBaseline(id)),
            !.animalBaselines = MapSet(S.animalBaselines, id, initializeBaseline(id, t))]

addHealthMetrics(S, metrics) ==
    LET pushed == Append(GetOrEmpty(S.healthMetrics, metrics.animalId), metrics)
        kept == IF Len(pushed) > 100 THEN Tail(pushed) ELSE pushed
    IN  [S EXCEPT !.healthMetrics = MapSet(S.healthMetrics, metrics.animalId, kept)]

\* metrics.slice(-limit)
getHealthMetrics(S, animalId, limit) ==
    LET metrics == GetOrEmpty(S.healthMetrics, animalId)
    IN  SubSeq(metrics, Max2(1, Len(metrics) - limit + 1), Len(metrics))

\* setRiskAssessment that keeps the assessment a subject already has: a mutant
setRiskAssessment_KeepFirst(S, assessment) ==
    IF assessment.animalId \in DOMAIN S.riskAssessments THEN S
    ELSE [S EXCEPT !.riskAssessments = MapSet(S.riskAssessments, assessment.animalId,
                                              assessment)]

setRiskAssessment(S, assessment) ==
    [S EXCEPT !.riskAssessments = MapSet(S.riskAssessments, assessment.animalId, assessment)]

\* createGeminiAlert that drops the alert just pushed at the cap: a mutant
createGeminiAlert_DropNewest(S, alert, t) ==
    LET fullAlert == [id |-> <<t, S.alertSeq>>,
                      animalId |-> alert.animalId,
                      severity |-> alert.severity,
                      timestamp |-> alert.timestamp,
                      explanation |-> alert.explanation,
                      recommendations |-> alert.recommendations,
                      signals |-> alert.signals,
                      riskScore |-> alert.riskScore]
        pushed == Append(S.geminiAlerts, fullAlert)
    IN  [S EXCEPT
            !.alertSeq = @ + 1,
            !.geminiAlerts = IF Len(pushed) > 100
                             THEN SubSeq(pushed, 1, 100) ELSE pushed]

\* generateId() is `${Date.now()}-${random}`: the time and a fresh serial number
createGeminiAlert(S, alert, t) ==
    LET fullAlert == [id |-> <<t, S.alertSeq>>,
                      animalId |-> alert.animalId,
                      severity |-> alert.severity,
                      timestamp |-> alert.timestamp,
                      explanation |-> alert.explanation,
                      recommendations |-> alert.recommendations,
                      signals |-> alert.signals,
                      riskScore |-> alert.riskScore]
        pushed == Append(S.geminiAlerts, fullAlert)
    IN  [S EXCEPT
            !.alertSeq = @ + 1,
            !.geminiAlerts = IF Len(pushed) > 100 THEN Tail(pushed) ELSE pushed]

setAnimalBaseline(S, baseline) ==
    [S EXCEPT !.animalBaselines = MapSet(S.animalBaselines, baseline.animalId, baseline)]

\* history.findIndex(d => d.date === deviation.date), 0 for -1
RECURSIVE FindDate(_, _, _)
FindDate(history, date, i) ==
    IF i > Len(history) THEN 0
    ELSE IF history[i].date = date THEN i
    ELSE FindDate(history, date, i + 1)

\* storeDeviation that cuts the newest dates off a long history: a mutant
storeDeviation_KeepOldest(S, animalId, deviation) ==
    LET history == GetOrEmpty(S.dailyDeviations, animalId)
        existingIndex == FindDate(history, deviation.date, 1)
        updated == IF existingIndex > 0
                   THEN [history EXCEPT ![existingIndex] = deviation]
                   ELSE Append(history, deviation)
        sorted == SortByDateDesc(updated)
        kept == IF Len(updated) > 30
                THEN SubSeq(sorted, Len(sorted) - 29, Len(sorted))
                ELSE updated
    IN  [S EXCEPT !.dailyDeviations = MapSet(S.dailyDeviations, animalId, kept)]

\* storeDeviation that pushes without looking for the date: a mutant
storeDeviation_AlwaysPush(S, animalId, deviation) ==
    LET history == GetOrEmpty(S.dailyDeviations, animalId)
        updated == Append(history, deviation)
        kept == IF Len(updated) > 30
                THEN SubSeq(SortByDateDesc(updated), 1, 30)
                ELSE updated
    IN  [S EXCEPT !.dailyDeviations = MapSet(S.dailyDeviations, animalId, kept)]

storeDeviation(S, animalId, deviation) ==
    LET history == GetOrEmpty(S.dailyDeviations, animalId)
        existingIndex == FindDate(history, deviation.date, 1)
        updated == IF existingIndex > 0
                   THEN [history EXCEPT ![existingIndex] = deviation]
                   ELSE Append(history, deviation)
        kept == IF Len(updated) > 30
                THEN SubSeq(SortByDateDesc(updated), 1, 30)
                ELSE updated
    IN  [S EXCEPT !.dailyDeviations = MapSet(S.dailyDeviations, animalId, kept)]

getDeviationHistory(S, animalId, days, t) ==
    SortByDateDesc(SinceCutoff(GetOrEmpty(S.dailyDeviations, animalId),
                               t - days * TicksPerDay))

setEarlyWarning(S, warning) ==
    [S EXCEPT !.earlyWarnings = MapSet(S.earlyWarnings, warning.animalId, warning)]

(***************************************************************************)
(* POST /api/health-score (src/app/api/health-score/route.ts, lines        *)
(* 176-306).  The handler's one await is request.json() at its top; the    *)
(* rest runs to the response without yielding.                             *)
(***************************************************************************)
NotFound(error) == [status |-> 404, success |-> FALSE, error |-> error]

\* AlertDue without its test of the risk level: a mutant
AlertDue_EveryStable(personalBaseline, assessment) ==
    personalBaseline.baselineStatus = "STABLE"

\* lines 274-277: the test that guards the alert
AlertDue(personalBaseline, assessment) ==
    /\ personalBaseline.baselineStatus = "STABLE"
    /\ assessment.riskLevel = "MODERATE" \/ assessment.riskLevel = "HIGH"

\* line 259: warningAssessment?.consecutiveDaysWithDrift || 1
ConsistencyDays(warningAssessment) ==
    IF warningAssessment # Null /\ warningAssessment.consecutiveDaysWithDrift # 0
    THEN warningAssessment.consecutiveDaysWithDrift ELSE 1

\* line 260: warningAssessment?.driftState || 'STABLE'
DriftStateOf(warningAssessment) ==
    IF warningAssessment # Null THEN warningAssessment.driftState ELSE "STABLE"

\* lines 282-295: the response
Respond(assessment, currentMetrics, alert, personalBaseline, warningAssessment) ==
    [status |-> 200,
     success |-> TRUE,
     assessment |-> assessment,
     metrics |-> currentMetrics,
     alert |-> alert,
     baseline |-> [status |-> personalBaseline.baselineStatus,
                   progress |-> [n |-> personalBaseline.dataPointsCollected,
                                 d |-> personalBaseline.requiredDataPoints],
                   dataPoints |-> personalBaseline.dataPointsCollected],
     earlyWarning |->
        IF warningAssessment = Null THEN Null
        ELSE [driftState |-> warningAssessment.driftState,
              consecutiveDays |-> warningAssessment.consecutiveDaysWithDrift,
              message |-> warningAssessment.earlyWarningMessage]]

\* lines 258-295: the assessment, the alert and the response, on the store S4
\* left by the baseline update and the drift detection
Score(S4, animalId, currentMetrics, personalBaseline, warningAssessment, t) ==
    Bind(calculatePersonalizedHealthRisk(animalId, currentMetrics, personalBaseline,
             ConsistencyDays(warningAssessment), DriftStateOf(warningAssessment), t),
      LAMBDA assessment :
    Bind(IF AlertDue(personalBaseline, assessment)
         THEN createGeminiAlert(setRiskAssessment(S4, assessment),
                                createAlertFromAssessment(assessment, t), t)
         ELSE setRiskAssessment(S4, assessment),
      LAMBDA S6 :
        [S6 EXCEPT !.response =
            Respond(assessment, currentMetrics,
                    IF AlertDue(personalBaseline, assessment)
                    THEN S6.geminiAlerts[Len(S6.geminiAlerts)] ELSE Null,
                    personalBaseline, warningAssessment)]))

\* Drift without its test of the baseline's status: a mutant
Drift_Always(S2, animalId, currentMetrics, personalBaseline, t) ==
    Bind(storeDeviation(S2, animalId,
             calculateDailyDeviation(currentMetrics, personalBaseline, t)),
      LAMBDA S3 :
    Bind(generateEarlyWarningAssessment(animalId,
             getDeviationHistory(S3, animalId, 7, t), t),
      LAMBDA warningAssessment :
        Score(setEarlyWarning(S3, warningAssessment), animalId, currentMetrics,
              personalBaseline, warningAssessment, t)))

\* lines 238-256: the drift detection, run for a STABLE baseline only, on the
\* store S2 that holds the updated baseline
Drift(S2, animalId, currentMetrics, personalBaseline, t) ==
    IF personalBaseline.baselineStatus = "STABLE"
    THEN Bind(storeDeviation(S2, animalId,
                  calculateDailyDeviation(currentMetrics, personalBaseline, t)),
           LAMBDA S3 :
         Bind(generateEarlyWarningAssessment(animalId,
                  getDeviationHistory(S3, animalId, 7, t), t),
           LAMBDA warningAssessment :
             Score(setEarlyWarning(S3, warningAssessment), animalId, currentMetrics,
                   personalBaseline, warningAssessment, t)))
    ELSE Score(S2, animalId, currentMetrics, personalBaseline, Null, t)

\* lines 233-236: the baseline update, on the store S1 that holds the new metrics
Assess(S1, animalId, currentMetrics, t) ==
    Bind(getHealthMetrics(S1, animalId, 100), LAMBDA allMetrics :
    Bind(addBaselineDataPoint(S1.animalBaselines[animalId], allMetrics, t),
      LAMBDA personalBaseline :
        Drift(setAnimalBaseline(S1, personalBaseline), animalId, currentMetrics,
              personalBaseline, t)))

POST(S, animalId, riskBias, t) ==
    IF animalId \notin DOMAIN S.animals
    THEN [S EXCEPT !.response = NotFound("Animal not found")]
    ELSE IF animalId \notin DOMAIN S.healthBaselines
    THEN [S EXCEPT !.response = NotFound("Health baseline not found for animal")]
    ELSE
    Bind(generateSimulatedMetrics(animalId, S.healthBaselines[animalId], riskBias, t),
      LAMBDA currentMetrics :
    Bind(addHealthMetrics(S, currentMetrics), LAMBDA S1 :
        IF animalId \notin DOMAIN S1.animalBaselines
        THEN [S1 EXCEPT !.response = NotFound("Personalized baseline not found for animal")]
        ELSE Assess(S1, animalId, currentMetrics, t)))

(***************************************************************************)
(* SpecBaseline: direct calls of addBaselineDataPoint.                     *)
(***************************************************************************)
RiskBiases == {"low", "moderate", "high"}

\* a metrics history of k submissions for COW-101: all of bias "low", or the
\* biases low, moderate, high in turn
History(k, pattern) ==
    [i \in 1..k |->
        generateSimulatedMetrics(<<"COW", 101>>, CreatedHealthBaseline(<<"COW", 101>>),
            IF pattern = "low" \/ i % 3 = 1 THEN "low"
            ELSE IF i % 3 = 2 THEN "moderate" ELSE "high", 0)]

HistoryInputs ==
    {History(k, pattern) :
        k \in {0, 1, 2, MIN_DATA_POINTS - 1, MIN_DATA_POINTS, MIN_DATA_POINTS + 1},
        pattern \in {"low", "mixed"}}

BaselineInputs ==
    {initializeBaseline(<<"COW", 101>>, 0), Cow1Baseline(0), Buf1Baseline(0)}

\* the baselines calculateLearningProgress is asked about: LEARNING ones started
\* at the start time with some entries counted, and a STABLE one
ProgressInputs(start) ==
    {[initializeBaseline(<<"COW", 101>>, start) EXCEPT !.dataPointsCollected = k] :
        k \in {0, 5, MIN_DATA_POINTS - 1, MIN_DATA_POINTS + 5}}
    \cup {Cow1Baseline(start)}

InitBaseline ==
    /\ now \in 0..MaxNow
    /\ call \in {[fn |-> "addBaselineDataPoint", baseline |-> b, dataPoints |-> h] :
                    b \in BaselineInputs, h \in HistoryInputs}
                \cup {[fn |-> "calculateLearningProgress", baseline |-> b] :
                         b \in ProgressInputs(now) \cup ProgressInputs(now - 2 * TicksPerDay)}
    /\ ret = NoRet
    /\ EmptyStore

CallAddBaselineDataPoint ==
    /\ call.fn = "addBaselineDataPoint"
    /\ ret = NoRet
    /\ ret' = addBaselineDataPoint(call.baseline, call.dataPoints, now)
    /\ UNCHANGED <<now, call, storeVars>>

\* a call of calculateLearningProgress at the present or a later time, on the
\* baseline of the last call with as many entries or one more; the result is
\* kept with the result of the call before
CallCalculateLearningProgress ==
    /\ call.fn = "calculateLearningProgress"
    /\ \E t \in now..MaxNow : \E grown \in {0, 1} :
          /\ ret # NoRet => t > now
          /\ now' = t
          /\ call' = [call EXCEPT !.baseline.dataPointsCollected = @ + grown]
          /\ ret' = [result |-> calculateLearningProgress(call'.baseline, t),
                     before |-> IF ret = NoRet THEN Null ELSE ret.result]
    /\ UNCHANGED storeVars

NextBaseline == CallAddBaselineDataPoint \/ CallCalculateLearningProgress

SpecBaseline == InitBaseline /\ [][NextBaseline]_vars

\* C1: addBaselineDataPoint on a LEARNING baseline returns STABLE if and only if
\* the history has at least 20 entries and at least 7 days have elapsed between
\* baselineStartDate and the current time; otherwise the result is still LEARNING.
C1_StableIffPointsAndSevenDaysElapsed ==
    (call.fn = "addBaselineDataPoint" /\ ret # NoRet
        /\ call.baseline.baselineStatus = "LEARNING")
    => /\ ret.baselineStatus \in {"LEARNING", "STABLE"}
       /\ ret.baselineStatus = "STABLE"
            <=> (/\ Len(call.dataPoints) >= 20
                 /\ now - call.baseline.baselineStartDate >= 7 * TicksPerDay)

\* C2: addBaselineDataPoint applied to a STABLE baseline returns it unchanged for
\* any metrics history: status, means, standard deviations and
\* dataPointsCollected are the ones it was given.
C2_StableBaselineReturnedUnchanged ==
    (call.fn = "addBaselineDataPoint" /\ ret # NoRet
        /\ call.baseline.baselineStatus = "STABLE")
    => /\ ret.baselineStatus = "STABLE"
       /\ ret.avgSpeed = call.baseline.avgSpeed
       /\ ret.avgVisitsPerDay = call.baseline.avgVisitsPerDay
       /\ ret.avgActivityLevel = call.baseline.avgActivityLevel
       /\ ret.speedStdDev = call.baseline.speedStdDev
       /\ ret.activityStdDev = call.baseline.activityStdDev
       /\ ret.dataPointsCollected = call.baseline.dataPointsCollected
       /\ ret = call.baseline

\* C2 witness: a STABLE baseline was given a history of 21 entries whose count and
\* activity mean differ from the baseline's, and the call has returned.
C2_Witness ==
    /\ call.fn = "addBaselineDataPoint"
    /\ ret # NoRet
    /\ call.baseline.baselineStatus = "STABLE"
    /\ Len(call.dataPoints) = MIN_DATA_POINTS + 1
    /\ Len(call.dataPoints) # call.baseline.dataPointsCollected
    /\ mean(Column(call.dataPoints, "activityLevel")) # call.baseline.avgActivityLevel

(***************************************************************************)
(* SpecRisk: direct calls of calculateHealthRisk and of                    *)
(* calculatePersonalizedHealthRisk.  The values sit on and around the      *)
(* thresholds of the baselines below.                                      *)
(***************************************************************************)
MetricsInputs ==
    {[animalId |-> <<"COW", 101>>, timestamp |-> 0, activityLevel |-> a,
      visitFrequency24h |-> v, visitFrequency48h |-> w, averageSpeed |-> sp,
      speedDeviation |-> 50] :
        a \in {1100, 1050, 1000, 951, 950, 851, 850, 701, 700},
        v \in {10, 9, 8, 7, 6},
        w \in {17, 18, 20},
        sp \in {476, 380, 350, 315, 300, 224}}

HerdBaselineInputs ==
    {CreatedHealthBaseline(<<"COW", 101>>),
     [CreatedHealthBaseline(<<"COW", 101>>) EXCEPT !.avgVisitFrequency = 10],
     [CreatedHealthBaseline(<<"COW", 101>>) EXCEPT !.avgVisitFrequency = 10,
                                                   !.speedStdDev = 0]}

\* a STABLE personal baseline of means 1000 / 10 / 3.50 with the given deviation
RoundBaseline(speedStdDev) ==
    [Cow1Baseline(0) EXCEPT !.avgSpeed = Whole(350),
                            !.avgVisitsPerDay = Whole(10),
                            !.avgActivityLevel = Whole(1000),
                            !.speedStdDev = speedStdDev]

PersonalBaselineInputs ==
    {RoundBaseline([sq |-> sd * sd, den |-> 1]) : sd \in {0, 4, 5, 8, 10, 42}}
    \cup {RoundBaseline([sq |-> 50, den |-> 2]),
          Cow1Baseline(0), Buf1Baseline(0), initializeBaseline(<<"COW", 101>>, 0)}

InitRisk ==
    /\ now \in {0, TicksPerDay}
    /\ call \in
        {[fn |-> "calculateHealthRisk", metrics |-> m, baseline |-> b] :
            m \in MetricsInputs, b \in HerdBaselineInputs}
        \cup
        {[fn |-> "calculatePersonalizedHealthRisk", metrics |-> m, baseline |-> b,
          consistencyDays |-> x[1], driftState |-> x[2]] :
            m \in MetricsInputs, b \in PersonalBaselineInputs,
            x \in {<<1, "STABLE">>, <<5, "ACTION_REQUIRED">>}}
        \cup
        {[fn |-> "calculateConfidence", consistencyDays |-> cd, baselineStatus |-> st,
          signalCount |-> n] :
            cd \in 0..(ROLLING_WINDOW_DAYS + 1), st \in {"LEARNING", "STABLE"}, n \in 0..3}
    /\ ret = NoRet
    /\ EmptyStore

CallCalculateHealthRisk ==
    /\ call.fn = "calculateHealthRisk"
    /\ ret = NoRet
    /\ ret' = [result |-> calculateHealthRisk(call.metrics.animalId, call.metrics,
                                              call.baseline, now),
               locals |-> HerdSignals(call.metrics, call.baseline)]
    /\ UNCHANGED <<now, call, storeVars>>

CallCalculatePersonalizedHealthRisk ==
    /\ call.fn = "calculatePersonalizedHealthRisk"
    /\ ret = NoRet
    /\ ret' = [result |-> calculatePersonalizedHealthRisk(call.metrics.animalId,
                              call.metrics, call.baseline, call.consistencyDays,
                              call.driftState, now),
               locals |-> IF isBaselineReady(call.baseline)
                          THEN PersonalSignals(call.metrics, call.baseline)
                          ELSE NoRet]
    /\ UNCHANGED <<now, call, storeVars>>

CallCalculateConfidence ==
    /\ call.fn = "calculateConfidence"
    /\ ret = NoRet
    /\ ret' = [result |-> calculateConfidence(call.consistencyDays, call.baselineStatus,
                                              call.signalCount)]
    /\ UNCHANGED <<now, call, storeVars>>

NextRisk ==
    \/ CallCalculateHealthRisk
    \/ CallCalculatePersonalizedHealthRisk
    \/ CallCalculateConfidence

SpecRisk == InitRisk /\ [][NextRisk]_vars

\* a returned call of the herd path, and of the personalized path on a STABLE baseline
HerdReturned == call.fn = "calculateHealthRisk" /\ ret # NoRet

PersonalReturned ==
    /\ call.fn = "calculatePersonalizedHealthRisk"
    /\ ret # NoRet
    /\ call.baseline.baselineStatus = "STABLE"

Scored == HerdReturned \/ PersonalReturned

\* C3: in both scoring paths the risk score is the sum of the activity, visit and
\* speed sub-scores, the activity sub-score is one of 0/10/25/40, the visit
\* sub-score one of 0/10/20/35 and the speed sub-score one of 0/5/15/25, so the
\* score lies in [0, 100].
C3_ScoreIsSumOfCappedSubScores ==
    Scored
    => /\ ret.locals.activity.score \in {0, 10, 25, 40}
       /\ ret.locals.visit.score \in {0, 10, 20, 35}
       /\ ret.locals.speed.score \in {0, 5, 15, 25}
       /\ ret.result.riskScore = ret.locals.activity.score + ret.locals.visit.score
                                    + ret.locals.speed.score
       /\ ret.result.riskScore >= 0
       /\ ret.result.riskScore <= 100

\* C3 witness: a personalized assessment on a STABLE baseline with all three
\* sub-scores at their caps.
C3_Witness ==
    /\ PersonalReturned
    /\ ret.locals.activity.score = 40
    /\ ret.locals.visit.score = 35
    /\ ret.locals.speed.score = 25
    /\ ret.result.riskScore = 100

\* C4: the risk level depends on the risk score alone: HIGH from 66, MODERATE
\* from 31 to 65, LOW up to 30.
C4_RiskLevelFromScore ==
    (call.fn \in {"calculateHealthRisk", "calculatePersonalizedHealthRisk"}
        /\ ret # NoRet)
    => /\ ret.result.riskScore >= 66 => ret.result.riskLevel = "HIGH"
       /\ (ret.result.riskScore >= 31 /\ ret.result.riskScore <= 65)
            => ret.result.riskLevel = "MODERATE"
       /\ ret.result.riskScore <= 30 => ret.result.riskLevel = "LOW"

\* C4 witness: an assessment of score 70, the lowest score that is HIGH.
C4_Witness ==
    /\ Scored
    /\ ret.result.riskScore = 70
    /\ ret.result.riskLevel = "HIGH"

\* the current metrics equal the personal baseline's means
MetricsEqualMeans ==
    /\ call.metrics.activityLevel * call.baseline.avgActivityLevel.d
            = call.baseline.avgActivityLevel.n
    /\ call.metrics.visitFrequency24h * call.baseline.avgVisitsPerDay.d
            = call.baseline.avgVisitsPerDay.n
    /\ call.metrics.averageSpeed * call.baseline.avgSpeed.d = call.baseline.avgSpeed.n

\* C5: with a STABLE baseline and metrics equal to the baseline means, the
\* personalized score is 0, the level LOW, no signal flag is set and
\* contributingFactors is the single "within personal normal range" string.
C5_AtBaselineScoreZero ==
    (PersonalReturned /\ MetricsEqualMeans)
    => /\ ret.result.riskScore = 0
       /\ ret.result.riskLevel = "LOW"
       /\ ret.result.signals = [activityDrop |-> FALSE, speedAnomaly |-> FALSE,
                                visitReduction |-> FALSE]
       /\ ret.result.contributingFactors =
            <<"All health indicators within personal normal range">>

\* C5 witness: the seeded COW-101 baseline (1050 / 7 / 3.80) met by equal metrics.
C5_Witness ==
    /\ PersonalReturned
    /\ MetricsEqualMeans
    /\ call.baseline = Cow1Baseline(0)

\* current activity is at least 30% below the baseline activity of the call
ActivityDropThirty ==
    IF call.fn = "calculateHealthRisk"
    THEN /\ call.baseline.avgActivityLevel > 0
         /\ 10 * call.metrics.activityLevel <= 7 * call.baseline.avgActivityLevel
    ELSE /\ call.baseline.avgActivityLevel.n > 0
         /\ 10 * call.metrics.activityLevel * call.baseline.avgActivityLevel.d
                <= 7 * call.baseline.avgActivityLevel.n

\* C6: whenever current activity is at least 30% below the baseline activity, the
\* activity sub-score is exactly 40, whatever the visit and speed inputs are.
C6_ThirtyPercentDropScoresForty ==
    (Scored /\ ActivityDropThirty)
    => /\ ret.locals.activity.score = 40
       /\ ret.result.signals.activityDrop

\* C6 witness: activity exactly 30% under a herd baseline of 1000 while the visit
\* and speed signals score nothing.
C6_Witness ==
    /\ HerdReturned
    /\ call.metrics.activityLevel = 700
    /\ call.baseline.avgActivityLevel = 1000
    /\ ret.locals.visit.score = 0
    /\ ret.locals.speed.score = 0
    /\ ret.locals.activity.score = 40

\* the 24h visit count is at least k% below the baseline visit value of the call
VisitDropAtLeast(k) ==
    IF call.fn = "calculateHealthRisk"
    THEN /\ call.baseline.avgVisitFrequency > 0
         /\ 100 * (call.baseline.avgVisitFrequency - call.metrics.visitFrequency24h)
                >= k * call.baseline.avgVisitFrequency
    ELSE /\ call.baseline.avgVisitsPerDay.n > 0
         /\ 100 * (call.baseline.avgVisitsPerDay.n
                    - call.metrics.visitFrequency24h * call.baseline.avgVisitsPerDay.d)
                >= k * call.baseline.avgVisitsPerDay.n

\* the 48h visit count is below 1.8 times the baseline visit value of the call
Visits48hBelowTrend ==
    IF call.fn = "calculateHealthRisk"
    THEN 10 * call.metrics.visitFrequency48h < 18 * call.baseline.avgVisitFrequency
    ELSE 10 * call.metrics.visitFrequency48h * call.baseline.avgVisitsPerDay.d
            < 18 * call.baseline.avgVisitsPerDay.n

VisitTable(top) ==
    IF top THEN 35
    ELSE IF VisitDropAtLeast(20) THEN 20
    ELSE IF VisitDropAtLeast(10) THEN 10
    ELSE 0

\* C7 (as claimed): in both scoring paths the visit sub-score is 35 whenever the
\* 24h count is at least 40% below baseline or the 48h count is below 1.8 times
\* the baseline; otherwise 20 from a 20% drop, 10 from a 10% drop, else 0.
C7_Original_BothPathsUse48h ==
    Scored
    => ret.locals.visit.score = VisitTable(VisitDropAtLeast(40) \/ Visits48hBelowTrend)

\* C7 (amended): the herd path scores 35 on a 24h drop of at least 40% or a 48h
\* count below 1.8 times the baseline; the personalized path scores 35 exactly on
\* a 24h drop of at least 40% and does not read the 48h count; below that both
\* score 20 from a 20% drop, 10 from a 10% drop, else 0.
C7_VisitScoreHerdUses48hPersonalDoesNot ==
    /\ HerdReturned
        => ret.locals.visit.score
            = VisitTable(VisitDropAtLeast(40) \/ Visits48hBelowTrend)
    /\ PersonalReturned
        => ret.locals.visit.score = VisitTable(VisitDropAtLeast(40))

\* C7 witness: a personalized assessment whose 48h count is below 1.8 times the
\* personal mean, with no 24h drop, scores 0 for visits.
C7_Witness ==
    /\ PersonalReturned
    /\ Visits48hBelowTrend
    /\ ~VisitDropAtLeast(10)
    /\ ret.locals.visit.score = 0
    /\ ~ret.result.signals.visitReduction

\* the baseline speed standard deviation of the call is 0
SpeedStdDevZero ==
    IF call.fn = "calculateHealthRisk" THEN call.baseline.speedStdDev = 0
    ELSE call.baseline.speedStdDev.sq = 0

\* C8: in both scoring paths, a baseline speed standard deviation of 0 gives a
\* speed sub-score of 0 and speedAnomaly false, whatever the speeds are.
C8_ZeroStdDevScoresNothing ==
    (Scored /\ SpeedStdDevZero)
    => /\ ret.locals.speed.score = 0
       /\ ~ret.result.signals.speedAnomaly

\* C9: on a baseline that is not STABLE, calculatePersonalizedHealthRisk returns
\* LOW, score 0, all flags false, baselineUsed false, baselineStatus LEARNING, a
\* learningProgress and no explanation.
C9_LearningBaselineForcesLowZero ==
    (call.fn = "calculatePersonalizedHealthRisk" /\ ret # NoRet
        /\ call.baseline.baselineStatus # "STABLE")
    => /\ ret.result.riskLevel = "LOW"
       /\ ret.result.riskScore = 0
       /\ ret.result.signals = [activityDrop |-> FALSE, speedAnomaly |-> FALSE,
                                visitReduction |-> FALSE]
       /\ ret.result.baselineUsed = FALSE
       /\ ret.result.baselineStatus = "LEARNING"
       /\ "learningProgress" \in DOMAIN ret.result
       /\ ret.result.learningProgress
            = calculateLearningProgress(call.baseline, now)
       /\ "explanation" \notin DOMAIN ret.result

\* C9 witness: the seeded LEARNING baseline of BUFFALO-201 (780 / 5.2 / 2.80) asked
\* about activity 700, 10 visits and speed 2.24, all of which deviate from it.
C9_Witness ==
    /\ call.fn = "calculatePersonalizedHealthRisk"
    /\ ret # NoRet
    /\ call.baseline = Buf1Baseline(0)
    /\ call.metrics.activityLevel = 700
    /\ call.metrics.visitFrequency24h = 10
    /\ call.metrics.averageSpeed = 224

(***************************************************************************)
(* Spec: the data store under POST /api/health-score, createAnimal and the *)
(* passing of time.  The module is loaded at tick 0; the runs start        *)
(* MIN_DAYS - 1 days later and last MaxTicks ticks, from the store as      *)
(* loaded or from the store after createAnimal('Cow') and                  *)
(* MIN_DATA_POINTS - 1 submissions of bias "low" for COW-101, all at       *)
(* tick 0.                                                                 *)
(***************************************************************************)
RECURSIVE Replay(_, _, _, _)
Replay(S, animalId, k, t) ==
    IF k = 0 THEN S
    ELSE Bind(S, LAMBDA served : Replay(POST(served, animalId, "low", t), animalId, k - 1, t))

Learned(S) == Replay(createAnimal(S, "Cow", 0), <<"COW", 101>>, MIN_DATA_POINTS - 1, 0)

StoreIs(S) ==
    /\ animals = S.animals
    /\ healthBaselines = S.healthBaselines
    /\ animalBaselines = S.animalBaselines
    /\ healthMetrics = S.healthMetrics
    /\ riskAssessments = S.riskAssessments
    /\ geminiAlerts = S.geminiAlerts
    /\ dailyDeviations = S.dailyDeviations
    /\ earlyWarnings = S.earlyWarnings
    /\ animalIdCounter = S.animalIdCounter
    /\ alertSeq = S.alertSeq
    /\ response = S.response

CreatableSpecies == {"Cow"}

\* the clock when the runs start
StartTick == (MIN_DAYS - 1) * TicksPerDay

\* an id no animal is registered under
UnknownId == <<"GOAT", 301>>

Init ==
    /\ now = StartTick
    /\ call = NoRet
    /\ ret = NoRet
    /\ requests = 0
    /\ \E draw \in SeedDraws : \E learned \in BOOLEAN :
          \E S \in {IF learned THEN Learned(initializeSeedData(0, draw))
                               ELSE initializeSeedData(0, draw)} : StoreIs(S)

Tick ==
    /\ now < StartTick + MaxTicks
    /\ now' = now + 1
    /\ UNCHANGED <<call, ret, storeVars>>

\* createAnimal(species), the store's operation behind getOrCreateAnimal
CreateAnimal ==
    \E species \in CreatableSpecies :
        /\ animalIdCounter[species]
             < initializeSeedData(0, CHOOSE d \in SeedDraws : TRUE).animalIdCounter[species]
               + MaxCreates
        /\ \E S \in {createAnimal(Store, species, now)} : StoreBecomes(S)
        /\ UNCHANGED <<now, call, ret, requests>>

Post ==
    /\ requests < MaxRequests
    /\ \E animalId \in DOMAIN animals \cup {UnknownId} : \E riskBias \in RiskBiases :
          \E S \in {POST(Store, animalId, riskBias, now)} : StoreBecomes(S)
    /\ requests' = requests + 1
    /\ UNCHANGED <<now, call, ret>>

Next == Tick \/ CreateAnimal \/ Post

Spec == Init /\ [][Next]_vars

\* the submission a step serves, when it serves one with success
Submitted == requests' # requests /\ response'.status = 200

SubmittedId == response'.metrics.animalId

\* C10: over any sequence of submissions through POST /api/health-score, a
\* submission appends an alert if and only if the subject's baseline is STABLE
\* after the baseline update and the resulting risk level is MODERATE or HIGH; a
\* submission for a subject whose baseline is LEARNING appends none; a submission
\* appends at most one alert, and a request that is refused appends none.
C10_AlertIffStableAndElevated ==
    [][requests' # requests =>
        /\ alertSeq' - alertSeq \in {0, 1}
        /\ Len(geminiAlerts') = Len(geminiAlerts) + (alertSeq' - alertSeq)
        /\ SubSeq(geminiAlerts', 1, Len(geminiAlerts)) = geminiAlerts
        /\ alertSeq' = alertSeq + 1
             <=> /\ Submitted
                 /\ animalBaselines'[SubmittedId].baselineStatus = "STABLE"
                 /\ riskAssessments'[SubmittedId].riskLevel \in {"MODERATE", "HIGH"}
        /\ alertSeq' = alertSeq + 1
             => /\ geminiAlerts'[Len(geminiAlerts')].animalId = SubmittedId
                /\ geminiAlerts'[Len(geminiAlerts')].severity
                     = riskAssessments'[SubmittedId].riskLevel
                /\ response'.alert = geminiAlerts'[Len(geminiAlerts')]
        /\ (Submitted /\ animalBaselines'[SubmittedId].baselineStatus = "LEARNING")
             => alertSeq' = alertSeq /\ response'.alert = Null
    ]_vars

\* a submission for a STABLE baseline at MODERATE or HIGH risk has just put its
\* alert in the log, the only alert of the MaxRequests requests served
C10_Witness ==
    /\ response # NoRet
    /\ response.status = 200
    /\ response.baseline.status = "STABLE"
    /\ response.assessment.riskLevel \in {"MODERATE", "HIGH"}
    /\ response.alert # Null
    /\ Len(geminiAlerts) = 1
    /\ geminiAlerts[1] = response.alert
    /\ requests = MaxRequests

\* the deviation of the submission a step serves, against the updated baseline
SubmittedDeviation ==
    calculateDailyDeviation(response'.metrics, animalBaselines'[SubmittedId], now)

\* C11: over any sequence of submissions, a submission stores a daily deviation
\* and recomputes the drift assessment of its subject only when the subject's
\* baseline is STABLE after the baseline update: it then holds today's deviation
\* in the subject's history and the assessment computed afresh from the stored
\* history; a submission that leaves the baseline LEARNING, and a request that is
\* refused, leave every deviation history and every drift assessment unchanged.
C11_DriftOnlyForStableBaseline ==
    [][requests' # requests =>
        IF Submitted /\ animalBaselines'[SubmittedId].baselineStatus = "STABLE"
        THEN /\ SubmittedId \in DOMAIN dailyDeviations'
             /\ \E i \in 1..Len(dailyDeviations'[SubmittedId]) :
                    dailyDeviations'[SubmittedId][i] = SubmittedDeviation
             /\ \A id \in DOMAIN dailyDeviations' \ {SubmittedId} :
                    id \in DOMAIN dailyDeviations /\ dailyDeviations'[id] = dailyDeviations[id]
             /\ SubmittedId \in DOMAIN earlyWarnings'
             /\ earlyWarnings'[SubmittedId]
                  = generateEarlyWarningAssessment(SubmittedId,
                        getDeviationHistory([dailyDeviations |-> dailyDeviations'],
                                            SubmittedId, 7, now), now)
             /\ \A id \in DOMAIN earlyWarnings' \ {SubmittedId} :
                    id \in DOMAIN earlyWarnings /\ earlyWarnings'[id] = earlyWarnings[id]
             /\ response'.earlyWarning # Null
        ELSE /\ dailyDeviations' = dailyDeviations
             /\ earlyWarnings' = earlyWarnings
             /\ Submitted => response'.earlyWarning = Null
    ]_vars

\* a submission for a STABLE baseline has stored today's deviation and a drift
\* assessment, after a submission that left the baseline LEARNING
C11_Witness ==
    /\ response # NoRet
    /\ response.status = 200
    /\ response.baseline.status = "STABLE"
    /\ response.baseline.dataPoints = MIN_DATA_POINTS + 1
    /\ response.earlyWarning # Null
    /\ response.metrics.animalId \in DOMAIN earlyWarnings
    /\ \E i \in 1..Len(dailyDeviations[response.metrics.animalId]) :
          dailyDeviations[response.metrics.animalId][i].date = IsoDay(now)

(***************************************************************************)
(* SpecStore: direct calls of the store's storeDeviation and               *)
(* createGeminiAlert.  The runs start from a deviation history and an      *)
(* alert log that earlier calls of the two operations have left.           *)
(***************************************************************************)
StoreSubject == <<"COW", 102>>

\* the deviation a call stores: of the date given, with flagCount signals at -8%
DeviationInput(date, flagCount) ==
    SeedDeviation(date, IF flagCount >= 1 THEN -80 ELSE -10,
                  IF flagCount >= 2 THEN -80 ELSE -10,
                  IF flagCount >= 3 THEN -80 ELSE -10, flagCount)

\* the history k calls of storeDeviation leave in an empty store, for the k
\* dates from 1 to k arriving out of order (k + 1 is prime for the k used):
\* each call finds no entry of its date and pushes
FillDeviations(k) == [i \in 1..k |-> DeviationInput((7 * i) % (k + 1), 0)]

\* the alert data of a call
AlertInput(severity, t) ==
    [animalId |-> StoreSubject,
     severity |-> severity,
     timestamp |-> t,
     explanation |-> [animalId |-> StoreSubject, riskLevel |-> severity, because |-> <<>>],
     recommendations |-> generateRecommendations(severity,
        [activityDrop |-> FALSE, speedAnomaly |-> FALSE, visitReduction |-> FALSE]),
     signals |-> [activityDrop |-> FALSE, speedAnomaly |-> FALSE, visitReduction |-> FALSE],
     riskScore |-> IF severity = "HIGH" THEN 75 ELSE 45]

\* the log k calls of createGeminiAlert at time 0 leave in an empty store,
\* k at most 100: each call pushes the alert with the next serial number
FillAlerts(k) ==
    [i \in 1..k |->
        [id |-> <<0, i - 1>>] @@ AlertInput(IF i % 2 = 0 THEN "HIGH" ELSE "MODERATE", 0)]

DeviationFills == {0, 28, 30}

AlertFills == {0, 99, 100}

\* the dates the calls store: before, inside and after the dates of the fills
DeviationDates == {0, 15, 31, 32}

InitStore ==
    /\ now = 0
    /\ call = NoRet
    /\ ret = NoRet
    /\ requests = 0
    /\ \E seeded \in BOOLEAN : \E d \in DeviationFills : \E a \in AlertFills :
          /\ seeded \/ a = 0
          /\ seeded => d = 0
          /\ \E S \in {initializeSeedData(0, CHOOSE w \in SeedDraws : TRUE)} :
                StoreIs([S EXCEPT
                   !.dailyDeviations = IF seeded THEN @
                                       ELSE MapSet(@, StoreSubject, FillDeviations(d)),
                   !.geminiAlerts = FillAlerts(a),
                   !.alertSeq = a])

CallStoreDeviation ==
    /\ requests < MaxCalls
    /\ \E date \in DeviationDates : \E flagCount \in {0, 2} :
          /\ call' = [fn |-> "storeDeviation", animalId |-> StoreSubject,
                      deviation |-> DeviationInput(date, flagCount)]
          /\ \E S \in {storeDeviation(Store, StoreSubject, DeviationInput(date, flagCount))} :
                StoreBecomes(S)
    /\ ret' = NoRet
    /\ requests' = requests + 1
    /\ UNCHANGED now

CallCreateGeminiAlert ==
    /\ requests < MaxCalls
    /\ \E severity \in {"MODERATE", "HIGH"} :
          /\ call' = [fn |-> "createGeminiAlert", alert |-> AlertInput(severity, now)]
          /\ \E S \in {createGeminiAlert(Store, AlertInput(severity, now), now)} :
                /\ StoreBecomes(S)
                /\ ret' = S.geminiAlerts[Len(S.geminiAlerts)]
    /\ requests' = requests + 1
    /\ UNCHANGED now

NextStore == CallStoreDeviation \/ CallCreateGeminiAlert

SpecStore == InitStore /\ [][NextStore]_vars

\* the step is a call of storeDeviation
StoresDeviation == requests' # requests /\ call'.fn = "storeDeviation"

SubjectHistory == GetOrEmpty(dailyDeviations, StoreSubject)

DatesOf(history) == {history[i].date : i \in 1..Len(history)}

EntriesOf(history) == {history[i] : i \in 1..Len(history)}

\* C12: after any sequence of storeDeviation calls for a subject its deviation
\* history holds at most one entry per calendar date, and the entry of a date is
\* the one of the most recent call with that date: a call leaves no other entry
\* of its date than its own, and leaves the entries of the other dates as they were.
C12_OneEntryPerDateTheLatest ==
    /\ [](\A i, j \in 1..Len(SubjectHistory) :
            SubjectHistory[i].date = SubjectHistory[j].date => i = j)
    /\ [][StoresDeviation =>
            /\ \A e \in EntriesOf(SubjectHistory') :
                  IF e.date = call'.deviation.date THEN e = call'.deviation
                  ELSE e \in EntriesOf(SubjectHistory)
            /\ call'.deviation.date \in DatesOf(SubjectHistory)
                  => call'.deviation \in EntriesOf(SubjectHistory')
       ]_vars

\* a call has replaced the entry its date had, in a history of several dates
C12_Witness ==
    /\ call # NoRet
    /\ call.fn = "storeDeviation"
    /\ call.deviation.flagCount = 2
    /\ call.deviation.date = 15
    /\ Len(SubjectHistory) = 28
    /\ call.deviation \in EntriesOf(SubjectHistory)

\* the entries a call of storeDeviation has to choose from: the history without
\* the entry of the call's date, and the call's deviation
Upserted == {e \in EntriesOf(SubjectHistory) : e.date # call'.deviation.date} \cup {call'.deviation}

\* C13: the deviation history of a subject never holds more than 30 entries, and
\* an entry that a call discards is older than every entry the call keeps: the
\* 30 most recent dates are retained.
C13_ThirtyMostRecentDatesKept ==
    /\ [](Len(SubjectHistory) <= 30)
    /\ [][StoresDeviation =>
            /\ EntriesOf(SubjectHistory') \subseteq Upserted
            /\ Len(SubjectHistory') = IF Cardinality(Upserted) > 30 THEN 30 ELSE Cardinality(Upserted)
            /\ \A gone \in Upserted \ EntriesOf(SubjectHistory') :
                  \A kept \in EntriesOf(SubjectHistory') : gone.date < kept.date
       ]_vars

\* a call with a new date on a full history of the dates 1 to 30 has pushed the
\* oldest date out
C13_Witness ==
    /\ call # NoRet
    /\ call.fn = "storeDeviation"
    /\ call.deviation.date = 31
    /\ Len(SubjectHistory) = 30
    /\ call.deviation \in EntriesOf(SubjectHistory)
    /\ 1 \notin DatesOf(SubjectHistory)
    /\ 2 \in DatesOf(SubjectHistory)

\* the step is a call of createGeminiAlert
CreatesAlert == requests' # requests /\ call'.fn = "createGeminiAlert"

\* C17: the alert log never holds more than 100 alerts; a call of
\* createGeminiAlert appends its alert at the end and leaves the alerts already
\* logged as they were and in their order, and when the log would exceed 100 the
\* one alert removed is the first, the oldest.
C17_AlertLogCappedOldestDropped ==
    /\ [](Len(geminiAlerts) <= 100)
    /\ [][CreatesAlert =>
            /\ [f \in DOMAIN call'.alert |-> ret'[f]] = call'.alert
            /\ geminiAlerts' = IF Len(geminiAlerts) >= 100
                               THEN Append(Tail(geminiAlerts), ret')
                               ELSE Append(geminiAlerts, ret')
       ]_vars

\* a call on a log of 100 alerts has appended its alert and pushed the first out
C17_Witness ==
    /\ call # NoRet
    /\ call.fn = "createGeminiAlert"
    /\ Len(geminiAlerts) = 100
    /\ geminiAlerts[100] = ret
    /\ geminiAlerts[100].id[2] = 100
    /\ geminiAlerts[1].id[2] = 1

(***************************************************************************)
(* SpecDrift: direct calls of the functions of drift-detection.            *)
(***************************************************************************)
\* the times of the calls: the midnight that starts a day, and later that day
DriftTimes == {ROLLING_WINDOW_DAYS * TicksPerDay, ROLLING_WINDOW_DAYS * TicksPerDay + 1}

\* the maxDeviation arguments, in tenths of a percent
MaxDeviationInputs == {Tenths(k) : k \in {0, 50, 117, 149, 150, 151, 300}}

\* the history of the k days up to today, most recent first, every day with two
\* signals in the band at -8% and 11.7%, but for the day the pattern singles out;
\* in the pattern "gap" nothing was stored yesterday and the k days reach one
\* day further back
DriftWindow(today, k, pattern) ==
    [i \in 1..k |->
        IF pattern = "gap" THEN SeedDeviation(IF i = 1 THEN today ELSE today - i, -80, 117, 10, 2)
        ELSE IF pattern = "spike" /\ i = 2 THEN SeedDeviation(today - i + 1, -160, -80, -80, 2)
        ELSE IF pattern = "edge" /\ i = 2 THEN SeedDeviation(today - i + 1, -150, -80, 10, 2)
        ELSE IF pattern = "break" /\ i = 3 THEN SeedDeviation(today - i + 1, 10, 10, 10, 0)
        ELSE SeedDeviation(today - i + 1, -80, 117, 10, 2)]

DriftWindowInputs(today) ==
    {DriftWindow(today, k, pattern) :
        k \in 0..(ROLLING_WINDOW_DAYS + 1),
        pattern \in {"micro", "spike", "edge", "break", "gap"}}

\* a STABLE personal baseline of means 1000 / 20 / 3.50
DriftBaseline == [RoundBaseline([sq |-> 100, den |-> 1]) EXCEPT !.avgVisitsPerDay = Whole(20)]

\* metrics at, inside and around the ends of the band of 5% to 15%; the speeds
\* keep off the ends, where the floating-point quotient is not the exact one
DriftMetricsInputs ==
    {[animalId |-> <<"COW", 101>>, timestamp |-> 0, activityLevel |-> a,
      visitFrequency24h |-> v, visitFrequency48h |-> 2 * v, averageSpeed |-> sp,
      speedDeviation |-> 50] :
        a \in {1000, 951, 950, 850, 849, 1050, 1150, 1151},
        v \in {20, 19, 17, 16, 23},
        sp \in {350, 333, 332, 298, 297}}

\* a day of the history: calm, one signal in the band, activity and speed in
\* the band, or speed and visits in the band with activity beyond it
DeviationOfKind(date, kind) ==
    IF kind = "calm" THEN SeedDeviation(date, 10, 10, 10, 0)
    ELSE IF kind = "one" THEN SeedDeviation(date, -80, 10, 10, 1)
    ELSE IF kind = "two" THEN SeedDeviation(date, -80, 117, 10, 2)
    ELSE SeedDeviation(date, 10, 60, -80, 2)

\* the histories handed to detectConsecutiveDrift: in any order, of distinct
\* dates, as storeDeviation keeps one entry per date
DeviationListInputs ==
    UNION {
        {[i \in 1..k |-> DeviationOfKind(dates[i], kinds[i])] :
            dates \in {f \in [1..k -> 1..MaxDeviations] :
                          \A i, j \in 1..k : f[i] = f[j] => i = j},
            kinds \in [1..k -> {"calm", "one", "two", "visits"}]} :
        k \in 0..MaxDeviations}

InitDrift ==
    /\ now \in DriftTimes
    /\ call \in
        {[fn |-> "detectConsecutiveDrift", deviations |-> d] : d \in DeviationListInputs}
        \cup
        {[fn |-> "calculateDailyDeviation", currentMetrics |-> m, baseline |-> DriftBaseline] :
            m \in DriftMetricsInputs}
        \cup
        {[fn |-> "calculateDriftState", consecutiveDays |-> cd, maxDeviation |-> m] :
            cd \in 0..(ROLLING_WINDOW_DAYS + 1), m \in MaxDeviationInputs}
        \cup
        {[fn |-> "generateEarlyWarningAssessment", animalId |-> StoreSubject,
          recentDeviations |-> w] : w \in DriftWindowInputs(IsoDay(now))}
    /\ ret = NoRet
    /\ EmptyStore

CallCalculateDriftState ==
    /\ call.fn = "calculateDriftState"
    /\ ret = NoRet
    /\ ret' = [result |-> calculateDriftState(call.consecutiveDays, call.maxDeviation)]
    /\ UNCHANGED <<now, call, storeVars>>

CallGenerateEarlyWarningAssessment ==
    /\ call.fn = "generateEarlyWarningAssessment"
    /\ ret = NoRet
    /\ ret' = generateEarlyWarningAssessment(call.animalId, call.recentDeviations, now)
    /\ UNCHANGED <<now, call, storeVars>>

CallCalculateDailyDeviation ==
    /\ call.fn = "calculateDailyDeviation"
    /\ ret = NoRet
    /\ ret' = calculateDailyDeviation(call.currentMetrics, call.baseline, now)
    /\ UNCHANGED <<now, call, storeVars>>

CallDetectConsecutiveDrift ==
    /\ call.fn = "detectConsecutiveDrift"
    /\ ret = NoRet
    /\ ret' = detectConsecutiveDrift(call.deviations)
    /\ UNCHANGED <<now, call, storeVars>>

NextDrift ==
    \/ CallCalculateDailyDeviation
    \/ CallDetectConsecutiveDrift
    \/ CallCalculateDriftState
    \/ CallGenerateEarlyWarningAssessment

SpecDrift == InitDrift /\ [][NextDrift]_vars

\* the drift state the rule of the claim gives
DriftRule(consecutiveDays, over) ==
    IF consecutiveDays >= 5 \/ over THEN "ACTION_REQUIRED"
    ELSE IF 3 <= consecutiveDays /\ consecutiveDays < 5 /\ ~over THEN "EARLY_DRIFT"
    ELSE "STABLE"

\* some signal of some day of the window deviates by more than 15%
OverFifteen(window) ==
    \E i \in 1..Len(window) :
        \E delta \in {window[i].activityDeltaPct, window[i].speedDeltaPct, window[i].visitDeltaPct} :
            Abs(delta.n) > 15 * delta.d

\* C14: calculateDriftState returns ACTION_REQUIRED if and only if
\* consecutiveDays >= 5 or the maximum absolute deviation exceeds 15%, EARLY_DRIFT
\* if and only if 3 <= consecutiveDays < 5 and the maximum is at most 15%, and
\* STABLE otherwise, and the assessment of a window takes its drift state by this
\* rule from its count of consecutive days and the window's largest absolute
\* deviation; 7 consecutive qualifying days with maximum 11.7% give ACTION_REQUIRED.
C14_DriftStateFromDaysAndMaxDeviation ==
    /\ (call.fn = "calculateDriftState" /\ ret # NoRet) =>
          /\ ret.result = DriftRule(call.consecutiveDays,
                             call.maxDeviation.n > 15 * call.maxDeviation.d)
          /\ (call.consecutiveDays = 7 /\ call.maxDeviation = Tenths(117))
                => ret.result = "ACTION_REQUIRED"
    /\ (call.fn = "generateEarlyWarningAssessment" /\ ret # NoRet) =>
          /\ ret.driftState = DriftRule(ret.consecutiveDaysWithDrift,
                                        OverFifteen(ret.recentDeviations))
          /\ (ret.consecutiveDaysWithDrift = 7 /\ ~OverFifteen(ret.recentDeviations))
                => ret.driftState = "ACTION_REQUIRED"

\* the assessment of a window of 7 qualifying days with maximum deviation 11.7%
C14_Witness ==
    /\ call.fn = "generateEarlyWarningAssessment"
    /\ ret # NoRet
    /\ ret.consecutiveDaysWithDrift = 7
    /\ MaxDeviation(ret.recentDeviations) = Tenths(117)
    /\ ret.driftState = "ACTION_REQUIRED"

\* the impacts of the contributors an explanation lists
Impacts(explanation) ==
    [i \in 1..Len(explanation.contributors) |-> explanation.contributors[i].impact]

\* C15: for every personalized assessment that carries an explanation, the sum
\* of the impacts of the explanation's contributors is at most the assessment's
\* riskScore.
C15_ContributorImpactsWithinRiskScore ==
    (/\ call.fn = "calculatePersonalizedHealthRisk"
     /\ ret # NoRet
     /\ "explanation" \in DOMAIN ret.result)
    => SumSeq(Impacts(ret.result.explanation)) <= ret.result.riskScore

\* an explained assessment that lists two contributors and scores more than their
\* impacts, the rest coming from a sub-score whose signal is not active
C15_Witness ==
    /\ PersonalReturned
    /\ "explanation" \in DOMAIN ret.result
    /\ Len(ret.result.explanation.contributors) = 2
    /\ SumSeq(Impacts(ret.result.explanation)) > 0
    /\ SumSeq(Impacts(ret.result.explanation)) < ret.result.riskScore

ProgressReturned == call.fn = "calculateLearningProgress" /\ ret # NoRet

\* C16: calculateLearningProgress returns a value from 0 to 1; it returns 1 for a
\* STABLE baseline, and for a LEARNING baseline of a fixed start and a fixed or
\* growing dataPointsCollected the value computed at a later time is never
\* smaller than the value computed before.
C16_LearningProgressBoundedAndMonotone ==
    ProgressReturned =>
        /\ ret.result.d > 0
        /\ 0 <= ret.result.n
        /\ ret.result.n <= ret.result.d
        /\ call.baseline.baselineStatus = "STABLE" => ret.result = Whole(1)
        /\ ret.before # Null => ret.result.n * ret.before.d >= ret.before.n * ret.result.d

\* a LEARNING baseline whose progress, below 1, has grown from one call to a later one
C16_Witness ==
    /\ ProgressReturned
    /\ call.baseline.baselineStatus = "LEARNING"
    /\ ret.before # Null
    /\ ret.result.n * ret.before.d > ret.before.n * ret.result.d
    /\ ret.result.n < ret.result.d

(***************************************************************************)
(* SpecAlerts: direct calls of prioritizeAlerts                            *)
(* (src/lib/explainable-health.ts, lines 360-375).                         *)
(***************************************************************************)
severityOrder(severity) ==
    IF severity = "HIGH" THEN 3 ELSE IF severity = "MODERATE" THEN 2 ELSE 1

\* the comparator with the older alert first within a severity: a mutant
ComparePriority_OldestFirst(a, b) ==
    IF severityOrder(b.severity) - severityOrder(a.severity) # 0
    THEN severityOrder(b.severity) - severityOrder(a.severity)
    ELSE a.timestamp - b.timestamp

\* the comparator handed to sort: negative when a goes before b
ComparePriority(a, b) ==
    IF severityOrder(b.severity) - severityOrder(a.severity) # 0
    THEN severityOrder(b.severity) - severityOrder(a.severity)
    ELSE b.timestamp - a.timestamp

\* Array.prototype.sort is stable: an alert goes behind the alerts that do not
\* compare after it
RECURSIVE InsertByPriority(_, _)
InsertByPriority(sorted, alert) ==
    IF sorted = <<>> THEN <<alert>>
    ELSE IF ComparePriority(Head(sorted), alert) <= 0
         THEN <<Head(sorted)>> \o InsertByPriority(Tail(sorted), alert)
         ELSE <<alert>> \o sorted

RECURSIVE prioritizeAlerts(_)
prioritizeAlerts(alerts) ==
    IF alerts = <<>> THEN <<>>
    ELSE InsertByPriority(prioritizeAlerts(SubSeq(alerts, 1, Len(alerts) - 1)),
                          alerts[Len(alerts)])

\* the alerts of a call: the i-th has the id <<0, i>>, any severity and one of
\* three times
AlertListInputs ==
    UNION {
        {[i \in 1..k |-> [id |-> <<0, i>>, animalId |-> StoreSubject,
                          severity |-> sev[i], timestamp |-> ts[i]]] :
            sev \in [1..k -> {"HIGH", "MODERATE", "LOW"}], ts \in [1..k -> 0..2]} :
        k \in 0..MaxAlerts}

InitAlerts ==
    /\ now = 0
    /\ call \in {[fn |-> "prioritizeAlerts", alerts |-> a] : a \in AlertListInputs}
    /\ ret = NoRet
    /\ EmptyStore

CallPrioritizeAlerts ==
    /\ call.fn = "prioritizeAlerts"
    /\ ret = NoRet
    /\ ret' = [result |-> prioritizeAlerts(call.alerts)]
    /\ UNCHANGED <<now, call, storeVars>>

NextAlerts == CallPrioritizeAlerts

SpecAlerts == InitAlerts /\ [][NextAlerts]_vars

\* C18: prioritizeAlerts returns a permutation of its input in which every HIGH
\* alert precedes every MODERATE alert, every MODERATE alert precedes every LOW
\* alert, and alerts of equal severity appear in non-increasing timestamp order.
C18_AlertsBySeverityThenNewestFirst ==
    (call.fn = "prioritizeAlerts" /\ ret # NoRet) =>
        /\ Len(ret.result) = Len(call.alerts)
        /\ \A i \in 1..Len(call.alerts) :
              Cardinality({j \in 1..Len(ret.result) : ret.result[j] = call.alerts[i]}) = 1
        /\ \A i, j \in 1..Len(ret.result) :
              i < j =>
                 /\ ret.result[i].severity = "MODERATE" => ret.result[j].severity # "HIGH"
                 /\ ret.result[i].severity = "LOW" => ret.result[j].severity = "LOW"
                 /\ ret.result[i].severity = ret.result[j].severity
                       => ret.result[i].timestamp >= ret.result[j].timestamp

\* a list given as LOW, older HIGH, newer HIGH has come back reordered
C18_Witness ==
    /\ call.fn = "prioritizeAlerts"
    /\ ret # NoRet
    /\ Len(call.alerts) = 3
    /\ call.alerts[1].severity = "LOW"
    /\ ret.result = <<call.alerts[3], call.alerts[2], call.alerts[1]>>
    /\ ret.result[1].severity = "HIGH"
    /\ ret.result[2].severity = "HIGH"
    /\ ret.result[1].timestamp > ret.result[2].timestamp

DailyDeviationReturned == call.fn = "calculateDailyDeviation" /\ ret # NoRet

\* 100 * |current - mean| / mean, the absolute percent deviation of a signal of the
\* call from its baseline mean, is at least lo%, and is below hi% or, when the
\* band is closed, equal to it
SignalInBand(current, base, lo, hi, closed) ==
    /\ 100 * Abs(current * base.d - base.n) >= lo * base.n
    /\ \/ 100 * Abs(current * base.d - base.n) < hi * base.n
       \/ closed /\ 100 * Abs(current * base.d - base.n) = hi * base.n

\* how many of the three signals of the call are in the band
SignalsInBand(closed) ==
    Cardinality({f \in {"activity", "speed", "visits"} :
        IF f = "activity"
        THEN SignalInBand(call.currentMetrics.activityLevel,
                          call.baseline.avgActivityLevel, 5, 15, closed)
        ELSE IF f = "speed"
        THEN SignalInBand(call.currentMetrics.averageSpeed,
                          call.baseline.avgSpeed, 5, 15, closed)
        ELSE SignalInBand(call.currentMetrics.visitFrequency24h,
                          call.baseline.avgVisitsPerDay, 5, 15, closed)})

\* C19 as stated: flagCount is the number of the three signals whose absolute
\* percent deviation d from the personal baseline lies in the half-open band
\* 5 <= d < 15, and flagCount is between 0 and 3.
C19_Original_HalfOpenBand ==
    DailyDeviationReturned =>
        /\ ret.flagCount = SignalsInBand(FALSE)
        /\ ret.flagCount \in 0..3

\* C19, amended: flagCount is the number of the three signals whose absolute
\* percent deviation d from the personal baseline lies in the closed band
\* 5 <= d <= 15, a deviation of exactly 15% included, and flagCount is between
\* 0 and 3.
C19_FlagCountOverClosedBand ==
    DailyDeviationReturned =>
        /\ ret.flagCount = SignalsInBand(TRUE)
        /\ ret.flagCount \in 0..3

\* activity and visits exactly 15% below the baseline are both flagged
C19_Witness ==
    /\ DailyDeviationReturned
    /\ call.currentMetrics.activityLevel = 850
    /\ call.baseline.avgActivityLevel = Whole(1000)
    /\ call.currentMetrics.visitFrequency24h = 17
    /\ call.baseline.avgVisitsPerDay = Whole(20)
    /\ call.currentMetrics.averageSpeed = 350
    /\ ret.flagCount = 2

DetectReturned == call.fn = "detectConsecutiveDrift" /\ ret # NoRet

\* the arrangements of a list
Arrangements(list) ==
    {[i \in 1..Len(list) |-> list[p[i]]] : p \in Permutations(1..Len(list))}

\* the list with the most recent date first
DateDescending(list) ==
    CHOOSE a \in Arrangements(list) :
        \A i, j \in 1..Len(a) : i < j => a[i].date > a[j].date

\* the length of the longest prefix in which every entry has flagCount >= 2
QualifyingPrefix(list) ==
    CHOOSE k \in 0..Len(list) :
        /\ \A i \in 1..k : list[i].flagCount >= 2
        /\ k < Len(list) => list[k + 1].flagCount < 2

\* the signals that deviate by 5% or more on some day of the list
SignalsOf(list) ==
    {f \in {"activity", "speed", "visits"} :
        \E i \in 1..Len(list) :
            LET delta == IF f = "activity" THEN list[i].activityDeltaPct
                         ELSE IF f = "speed" THEN list[i].speedDeltaPct
                         ELSE list[i].visitDeltaPct
            IN  Abs(delta.n) >= 5 * delta.d}

\* C20: detectConsecutiveDrift returns as consecutiveDays the length of the
\* longest prefix of the date-descending deviation list in which every entry has
\* flagCount >= 2; entries older than the first entry with flagCount < 2 contribute
\* neither to the count nor to triggeredSignals, and the result does not depend
\* on the order of the input list.
C20_LongestRecentRunOfDriftDays ==
    DetectReturned =>
        LET sorted == DateDescending(call.deviations)
            k == QualifyingPrefix(sorted)
        IN  /\ ret.consecutiveDays = k
            /\ {ret.triggeredSignals[i] : i \in 1..Len(ret.triggeredSignals)}
                  = SignalsOf(SubSeq(sorted, 1, k))
            /\ ret = detectConsecutiveDrift(SubSeq(sorted, 1, k))
            /\ \A a \in Arrangements(call.deviations) : detectConsecutiveDrift(a) = ret

\* a list given oldest first: the most recent day drifts in activity and speed,
\* the day before is calm, and the oldest day, drifting in visits, is not counted
C20_Witness ==
    /\ DetectReturned
    /\ Len(call.deviations) = 3
    /\ call.deviations[1] = DeviationOfKind(1, "visits")
    /\ call.deviations[2] = DeviationOfKind(2, "calm")
    /\ call.deviations[3] = DeviationOfKind(3, "two")
    /\ ret.consecutiveDays = 1
    /\ ret.triggeredSignals = <<"activity", "speed">>

AssessmentReturned == call.fn = "generateEarlyWarningAssessment" /\ ret # NoRet

\* C21: whenever a drift assessment reports consecutiveDaysWithDrift = N, the
\* subject has a stored deviation with flagCount >= 2 for each of the N
\* consecutive calendar dates ending on the date of the assessment; a calendar
\* day with no stored deviation breaks the chain.
C21_DriftDaysAreConsecutiveCalendarDays ==
    AssessmentReturned =>
        \A back \in 0..(ret.consecutiveDaysWithDrift - 1) :
            \E i \in 1..Len(call.recentDeviations) :
                /\ call.recentDeviations[i].date = IsoDay(now) - back
                /\ call.recentDeviations[i].flagCount >= 2

\* C22: the recentDeviations list of every drift assessment holds only entries
\* dated within the last 7 calendar days (no entry is dated more than 7 days
\* before the day of the assessment), has at most 7 entries, the history having
\* one entry per date, and is ordered newest date first.
C22_WindowOfSevenDaysNewestFirst ==
    AssessmentReturned =>
        /\ \A i \in 1..Len(ret.recentDeviations) :
              /\ ret.recentDeviations[i].date >= IsoDay(now) - 7
              /\ ret.recentDeviations[i].date <= IsoDay(now)
        /\ Len(ret.recentDeviations) <= 7
        /\ \A i, j \in 1..Len(ret.recentDeviations) :
              i < j => ret.recentDeviations[i].date > ret.recentDeviations[j].date

\* how many of the three flags of an assessment are true
FlagCountOf(signals) ==
    (IF signals.activityDrop THEN 1 ELSE 0)
    + (IF signals.visitReduction THEN 1 ELSE 0)
    + (IF signals.speedAnomaly THEN 1 ELSE 0)

NormalRange == "All health indicators within personal normal range"

\* C23: in a personalized assessment activityDrop is true exactly when the
\* activity drop is at least 15% (sub-score 25 or 40), visitReduction exactly when
\* the visit sub-score is 20 or 35 and speedAnomaly exactly when the speed
\* sub-score is 15 or 25; contributingFactors has one string per true flag, and
\* the one 'normal range' string when no flag is true, so it is never empty.
C23_FlagsFromSubScoresFactorsPerFlag ==
    /\ PersonalReturned =>
          /\ ret.result.signals.activityDrop <=> ret.locals.activity.score \in {25, 40}
          /\ ret.result.signals.activityDrop <=>
                100 * (call.baseline.avgActivityLevel.n
                        - call.metrics.activityLevel * call.baseline.avgActivityLevel.d)
                    >= 15 * call.baseline.avgActivityLevel.n
          /\ ret.result.signals.visitReduction <=> ret.locals.visit.score \in {20, 35}
          /\ ret.result.signals.speedAnomaly <=> ret.locals.speed.score \in {15, 25}
          /\ IF FlagCountOf(ret.result.signals) = 0
             THEN ret.result.contributingFactors = <<NormalRange>>
             ELSE /\ Len(ret.result.contributingFactors) = FlagCountOf(ret.result.signals)
                  /\ \A i \in 1..Len(ret.result.contributingFactors) :
                        ret.result.contributingFactors[i] # NormalRange
    /\ (call.fn = "calculatePersonalizedHealthRisk" /\ ret # NoRet)
          => Len(ret.result.contributingFactors) >= 1

\* an activity drop that is flagged beside a visit decrease that scores 10 and is
\* not: one factor is listed
C23_Witness ==
    /\ PersonalReturned
    /\ ret.locals.activity.score = 25
    /\ ret.locals.visit.score = 10
    /\ ret.locals.speed.score = 0
    /\ ret.result.signals = [activityDrop |-> TRUE, speedAnomaly |-> FALSE,
                             visitReduction |-> FALSE]
    /\ Len(ret.result.contributingFactors) = 1

\* the contributors of the explanation that carry the signal name
ContributorsOf(name) ==
    {i \in 1..Len(ret.result.explanation.contributors) :
        ret.result.explanation.contributors[i].signal = name}

\* the explanation lists the signal exactly when its flag is true, once and with
\* the sub-score as its impact
ExplainedAs(name, flag, score) ==
    /\ flag <=> ContributorsOf(name) # {}
    /\ Cardinality(ContributorsOf(name)) <= 1
    /\ \A i \in ContributorsOf(name) : ret.result.explanation.contributors[i].impact = score

\* C24: for every personalized assessment with a STABLE baseline, the explanation
\* contains a contributor for a signal if and only if that signal's flag is true
\* in the assessment, and the contributor's impact equals the sub-score the risk
\* engine assigned to that signal.
C24_ContributorsMirrorFlagsAndSubScores ==
    PersonalReturned =>
        /\ ExplainedAs("Low Activity", ret.result.signals.activityDrop,
                       ret.locals.activity.score)
        /\ ExplainedAs("Reduced Visits", ret.result.signals.visitReduction,
                       ret.locals.visit.score)
        /\ ExplainedAs("Slower Speed", ret.result.signals.speedAnomaly,
                       ret.locals.speed.score)
        /\ Len(ret.result.explanation.contributors) = FlagCountOf(ret.result.signals)

\* all three signals flagged and listed: the contributors carry 40, 20 and 15
C24_Witness ==
    /\ PersonalReturned
    /\ ret.locals.activity.score = 40
    /\ ret.locals.visit.score = 20
    /\ ret.locals.speed.score = 15
    /\ Len(ret.result.explanation.contributors) = 3
    /\ ret.result.explanation.contributors[1].impact = 40
    /\ ret.result.explanation.contributors[2].impact = 20
    /\ ret.result.explanation.contributors[3].impact = 15

\* C25: calculateConfidence returns LOW whenever the baseline status is not
\* STABLE; otherwise HIGH when consistencyDays >= 5 and the contributor count is
\* at least 2; otherwise MEDIUM when consistencyDays >= 3 or the contributor
\* count is at least 2; otherwise LOW.
C25_ConfidenceFromStatusDaysAndContributors ==
    (call.fn = "calculateConfidence" /\ ret # NoRet) =>
        /\ call.baselineStatus # "STABLE" => ret.result = "LOW"
        /\ call.baselineStatus = "STABLE" =>
              /\ ret.result = "HIGH" <=> (call.consistencyDays >= 5 /\ call.signalCount >= 2)
              /\ ret.result = "MEDIUM" <=>
                    /\ ~(call.consistencyDays >= 5 /\ call.signalCount >= 2)
                    /\ (call.consistencyDays >= 3 \/ call.signalCount >= 2)
              /\ ret.result = "LOW" <=> (call.consistencyDays < 3 /\ call.signalCount < 2)

\* three consistent days with a single contributor on a STABLE baseline: MEDIUM
C25_Witness ==
    /\ call.fn = "calculateConfidence"
    /\ ret # NoRet
    /\ call.baselineStatus = "STABLE"
    /\ call.consistencyDays = 3
    /\ call.signalCount = 1
    /\ ret.result = "MEDIUM"

(***************************************************************************)
(* SpecConcurrent: POST /api/health-score requests for one subject that    *)
(* are in flight together.  The handler has one await, request.json() at   *)
(* line 178, ahead of every store access: a request waits there, and when  *)
(* it is resumed the rest of the handler runs to its return.  `call` is    *)
(* the sequence of the requests that wait.                                 *)
(***************************************************************************)
ConcurrentSubject == <<"COW", 101>>

\* the handler reading the store as the request found it on arrival, as if its
\* reads came before the await: a mutant
HandlerStore_AtArrival(current, atArrival) == atArrival

\* the store the resumed handler works on: the store as it is now; the store as
\* it was when the request arrived is carried along but not read
HandlerStore(current, atArrival) == current

InitConcurrent ==
    /\ now = StartTick
    /\ call = <<>>
    /\ ret = NoRet
    /\ requests = 0
    /\ \E draw \in SeedDraws : \E learned \in BOOLEAN :
          \E S \in {IF learned THEN Learned(initializeSeedData(0, draw))
                               ELSE initializeSeedData(0, draw)} : StoreIs(S)

\* a request arrives and waits for its body
Receive ==
    /\ requests < MaxRequests
    /\ \E riskBias \in RiskBiases :
          call' = Append(call, [animalId |-> ConcurrentSubject, riskBias |-> riskBias,
                                atArrival |-> Store])
    /\ requests' = requests + 1
    /\ UNCHANGED <<now, ret, animals, healthBaselines, animalBaselines, healthMetrics,
                   riskAssessments, geminiAlerts, dailyDeviations, earlyWarnings,
                   animalIdCounter, alertSeq, response>>

WithoutRequest(waiting, i) == SubSeq(waiting, 1, i - 1) \o SubSeq(waiting, i + 1, Len(waiting))

\* one of the waiting requests is resumed and served to its response
Resume ==
    /\ \E i \in 1..Len(call) :
          /\ \E S \in {POST(HandlerStore(Store, call[i].atArrival), call[i].animalId,
                            call[i].riskBias, now)} : StoreBecomes(S)
          /\ call' = WithoutRequest(call, i)
    /\ UNCHANGED <<now, ret, requests>>

NextConcurrent == Tick \/ Receive \/ Resume

SpecConcurrent == InitConcurrent /\ [][NextConcurrent]_vars

\* C26: under any interleaving of POST /api/health-score submissions for one
\* subject that are in flight together, the store accesses of a submission happen
\* in one step, with no store access of another submission in between (every
\* change of the store is the whole handler of one waiting request, run on the
\* store as that step found it), so that a stored baseline that is STABLE never
\* becomes LEARNING again and no deviation history holds two entries of one date.
C26_SubmissionsAtomicPerRequest ==
    /\ [](\A id \in DOMAIN dailyDeviations :
            \A i, j \in 1..Len(dailyDeviations[id]) :
                dailyDeviations[id][i].date = dailyDeviations[id][j].date => i = j)
    /\ [][/\ \A id \in DOMAIN animalBaselines :
                animalBaselines[id].baselineStatus = "STABLE"
                   => /\ id \in DOMAIN animalBaselines'
                      /\ animalBaselines'[id].baselineStatus = "STABLE"
          /\ Store' # Store =>
                \E i \in 1..Len(call) :
                    /\ call' = WithoutRequest(call, i)
                    /\ Store' = POST(Store, call[i].animalId, call[i].riskBias, now)
       ]_vars

\* a request still waits while the store has moved on since it arrived: another
\* submission for the subject was served meanwhile and left the baseline STABLE
C26_Witness ==
    /\ Len(call) = 1
    /\ requests = 2
    /\ call[1].atArrival # Store
    /\ response # NoRet
    /\ response.status = 200
    /\ response.metrics.animalId = ConcurrentSubject
    /\ animalBaselines[ConcurrentSubject].baselineStatus = "STABLE"
    /\ call[1].atArrival.animalBaselines[ConcurrentSubject].baselineStatus = "LEARNING"

\* C27: after any sequence of metric submissions the store holds one risk
\* assessment per subject at most, the one its most recent submission produced:
\* a served submission puts its assessment in the place of the subject's earlier
\* one and leaves the assessments of the other subjects as they were, and no
\* other step touches the assessments.
C27_OneCurrentAssessmentPerSubject ==
    [][IF Submitted
       THEN /\ DOMAIN riskAssessments' = DOMAIN riskAssessments \cup {SubmittedId}
            /\ riskAssessments'[SubmittedId] = response'.assessment
            /\ riskAssessments'[SubmittedId].animalId = SubmittedId
            /\ \A id \in DOMAIN riskAssessments \ {SubmittedId} :
                  riskAssessments'[id] = riskAssessments[id]
       ELSE riskAssessments' = riskAssessments
    ]_vars

\* the second submission of a subject has replaced the assessment of the first:
\* the stored one is the one of the response for the 21st data point
C27_Witness ==
    /\ requests = 2
    /\ response # NoRet
    /\ response.status = 200
    /\ response.baseline.dataPoints = MIN_DATA_POINTS + 1
    /\ response.metrics.animalId \in DOMAIN riskAssessments
    /\ riskAssessments[response.metrics.animalId] = response.assessment
    /\ response.assessment.riskScore > 0

\* the alert that POST raises from a returned personalized assessment
AlertOfReturned == createAlertFromAssessment(ret.result, now)

\* C28: in every personalized assessment a risk level of MODERATE or HIGH comes
\* with one true flag at least and HIGH with two at least, since the signals
\* below their flag threshold add up to 25 points at most and one flagged signal
\* beside them to 55; so every alert lists a real contributing factor and the
\* explanation of a HIGH risk has two contributors at least.
C28_ElevatedRiskHasFlaggedSignals ==
    PersonalReturned =>
        /\ FlagCountOf(ret.result.signals) = 0 => ret.result.riskScore <= 25
        /\ FlagCountOf(ret.result.signals) = 1 => ret.result.riskScore <= 55
        /\ ret.result.riskLevel \in {"MODERATE", "HIGH"} =>
              /\ FlagCountOf(ret.result.signals) >= 1
              /\ Len(AlertOfReturned.explanation.because) >= 1
              /\ \A i \in 1..Len(AlertOfReturned.explanation.because) :
                    AlertOfReturned.explanation.because[i] # NormalRange
        /\ ret.result.riskLevel = "HIGH" =>
              /\ FlagCountOf(ret.result.signals) >= 2
              /\ Len(ret.result.explanation.contributors) >= 2

\* a HIGH risk that rests on two flagged signals and a speed variation that is
\* not flagged
C28_Witness ==
    /\ PersonalReturned
    /\ ret.result.riskLevel = "HIGH"
    /\ FlagCountOf(ret.result.signals) = 2
    /\ ret.locals.speed.score = 5
    /\ Len(ret.result.explanation.contributors) = 2
    /\ Len(AlertOfReturned.explanation.because) = 2

\* the species whose counter a step has advanced, and the id createAnimal gave
CreatedSpecies == {sp \in CreatableSpecies : animalIdCounter'[sp] # animalIdCounter[sp]}

CreatedIds == {<<SpeciesPrefix(sp), animalIdCounter[sp]>> : sp \in CreatedSpecies}

\* C29: after the seed and any sequence of creations a created animal never gets
\* an id that is registered already, so a creation replaces no profile and
\* leaves every STABLE baseline STABLE.
C29_CreatedIdIsFresh ==
    [][animalIdCounter' # animalIdCounter =>
        /\ CreatedIds \cap DOMAIN animals = {}
        /\ \A id \in DOMAIN animals : animals'[id] = animals[id]
        /\ \A id \in DOMAIN animalBaselines :
              animalBaselines[id].baselineStatus = "STABLE"
                 => animalBaselines'[id].baselineStatus = "STABLE"
    ]_vars

\* C30: the progress of the baseline in the response of POST /api/health-score
\* lies in [0, 1] for every baseline the store can hold, LEARNING or STABLE.
C30_ResponseProgressWithinUnit ==
    (response # NoRet /\ response.status = 200) =>
        /\ response.baseline.progress.d > 0
        /\ response.baseline.progress.n >= 0
        /\ response.baseline.progress.n <= response.baseline.progress.d
====
